---- MODULE Spec2Model ----
(***************************************************************************)
(* A model of the crdb crate: the operation log, branch heads, revision    *)
(* cache, deferral and replay of RepoSnapshot, the local edit algorithm of *)
(* Document::edit, and the client / coordinator exchange of operations.    *)
(***************************************************************************)
EXTENDS Integers, Sequences, FiniteSets, TLC

(***************************************************************************)
(* Bounds of the model.                                                    *)
(***************************************************************************)
\* total number of operations authored locally, over all replicas
MaxOps == 4
\* number of operations authored by the clone
MaxCloneOps == 1
\* number of operations authored by the clone when the clients are connected
\* to the coordinator
MaxNetCloneOps == 2
MaxClones == 3
MaxMergeOps == 5
MaxConcurrentOps == 6
MaxDropOps == 2
MaxMergeCloneOps == 2
\* operations, operations of the clone and branches in the specification of the
\* delivery orders
MaxHeadOps == 8
MaxHeadCloneOps == 3
MaxHeadBranches == 2
\* operations and operations of the clone in the specification of load_branch
MaxLoadOps == 4
MaxLoadCloneOps == 1
\* operations and operations of the clone published to the coordinator
MaxPublishedOps == 4
MaxPublishedCloneOps == 1
MaxServerOps == 2
\* longest batch handed to one apply_operations call
MaxBatch == 2
\* number of ranges edited in the specification of the local edits
MaxEdits == 3
\* number of documents created in the specification of the local edits
MaxDocuments == 2

\* the replicas of one repository: the client that creates and publishes it, a
\* client that clones it, and the coordinator
Replicas == {"a", "b", "c"}
Creator == "a"
Clone == "b"
Coordinator == "c"
Clients == {Creator, Clone}
\* names a branch may be given
BranchNames == {"main"}
\* the ids of the repositories that are published: SharedRepoId is the id of the
\* repository of the replicas
RepoIds == {1, 2}
SharedRepoId == 1
\* names a repository may be published under
RepoNames == {"repo-1", "repo-2"}
\* replica ids and operation counts of the ids given to RevisionId::observe
ObservedIds == {[replica_id |-> r, operation_count |-> c] : r \in 0..1, c \in 1..4}
\* operations per PublishOperations request
CHUNK_SIZE == 64

(***************************************************************************)
(* Identifiers.                                                            *)
(***************************************************************************)
OperationId(r, c) == [replica_id |-> r, operation_count |-> c]

\* #[derive(Default)]: replica 0, count 0
DefaultOperationId == OperationId(0, 0)

\* #[derive(PartialOrd, Ord)] on OperationId: fields compare in declaration order,
\* replica_id first, operation_count second
OpIdLess(a, b) ==
    \/ a.replica_id < b.replica_id
    \/ a.replica_id = b.replica_id /\ a.operation_count < b.operation_count

OpIdLeq(a, b) == a = b \/ OpIdLess(a, b)

\* OperationId::tick
Tick(id) == OperationId(id.replica_id, id.operation_count + 1)

Max2(a, b) == IF a >= b THEN a ELSE b
Min2(a, b) == IF a <= b THEN a ELSE b

\* a faulty observe that keeps the clock where it is
ObserveIdKeep(self, other) == self

\* OperationId::observe
ObserveId(self, other) ==
    OperationId(self.replica_id, Max2(self.operation_count, other.operation_count) + 1)

\* OperationId::is_causally_after
IsCausallyAfter(self, id) ==
    \/ self.operation_count > id.operation_count
    \/ self.operation_count = id.operation_count /\ self.replica_id > id.replica_id

Range(s) == {s[i] : i \in DOMAIN s}

\* a let binding: In applied to a value that is written once
With(value, In(_)) == In(value)

RECURSIVE InsertSorted(_, _)
InsertSorted(s, id) ==
    IF s = <<>> THEN <<id>>
    ELSE IF OpIdLeq(Head(s), id) THEN <<Head(s)>> \o InsertSorted(Tail(s), id)
    ELSE <<id>> \o s

RECURSIVE SortIds(_)
\* SmallVec::sort under the derived Ord
SortIds(s) == IF s = <<>> THEN <<>> ELSE InsertSorted(SortIds(Tail(s)), Head(s))

\* RevisionId::default and From<OperationId> for RevisionId
EmptyRevisionId == <<>>
RevisionIdFrom(id) == <<id>>

\* a faulty observe that forgets the ids the revision id holds
RevisionIdObserveLast(self, operation_id, parent) == <<operation_id>>

\* RevisionId::observe
RevisionIdObserve(self, operation_id, parent) ==
    SortIds(Append(IF \A i \in DOMAIN parent : parent[i] \in Range(self)
                   THEN SelectSeq(self, LAMBDA x : x \notin Range(parent))
                   ELSE self,
                   operation_id))

(***************************************************************************)
(* DenseId: a non-empty digit string ordered lexicographically.            *)
(***************************************************************************)
DenseDigitMax == 255
DenseIdMin == <<0>>
DenseIdMax == <<DenseDigitMax>>

RECURSIVE DenseLess(_, _)
DenseLess(a, b) ==
    IF b = <<>> THEN FALSE
    ELSE IF a = <<>> THEN TRUE
    ELSE IF Head(a) < Head(b) THEN TRUE
    ELSE IF Head(a) > Head(b) THEN FALSE
    ELSE DenseLess(Tail(a), Tail(b))

RECURSIVE DenseBetweenFrom(_, _, _)
DenseBetweenFrom(lhs, rhs, i) ==
    LET Mid(l, r) == l + (IF r > l THEN (r - l) \div 2 ELSE 0)
        Digit(l, mid) == IF mid > l THEN <<mid>> ELSE <<mid>> \o DenseBetweenFrom(lhs, rhs, i + 1)
        Between(l, r) == Digit(l, Mid(l, r))
    IN Between(IF i <= Len(lhs) THEN lhs[i] ELSE 0,
               IF i <= Len(rhs) THEN rhs[i] ELSE DenseDigitMax)

\* DenseId::between
DenseBetween(lhs, rhs) == DenseBetweenFrom(lhs, rhs, 1)

(***************************************************************************)
(* Fragments and revisions.                                                *)
(***************************************************************************)
Sum(f, lo, hi) ==
    LET RECURSIVE Go(_)
        Go(i) == IF i > hi THEN 0 ELSE f[i] + Go(i + 1)
    IN Go(lo)

\* DocumentFragment::is_sentinel
IsSentinel(fragment) == fragment.insertion_id = fragment.document_id

\* DocumentFragment::len
FragmentLen(fragment) == fragment.insertion_subrange.end - fragment.insertion_subrange.start

\* DocumentFragment::visible
Visible(fragment) ==
    /\ fragment.undo_count % 2 = 0
    /\ \A i \in DOMAIN fragment.tombstones : fragment.tombstones[i].undo_count % 2 = 1

\* DocumentFragment::summary: visible_len and hidden_len
VisibleLen(fragment) == IF Visible(fragment) THEN FragmentLen(fragment) ELSE 0
HiddenLen(fragment) == IF Visible(fragment) THEN 0 ELSE FragmentLen(fragment)

\* summary of a slice fragments[lo..hi]
SliceVisibleLen(fragments, lo, hi) ==
    Sum([i \in DOMAIN fragments |-> VisibleLen(fragments[i])], lo, hi)
SliceHiddenLen(fragments, lo, hi) ==
    Sum([i \in DOMAIN fragments |-> HiddenLen(fragments[i])], lo, hi)

\* Cursor::start().visible_len with the cursor on item idx (Len + 1: past the end)
StartVisible(fragments, idx) == SliceVisibleLen(fragments, 1, idx - 1)

\* Cursor::end().visible_len
EndVisible(fragments, idx) ==
    StartVisible(fragments, idx)
        + (IF idx <= Len(fragments) THEN VisibleLen(fragments[idx]) ELSE 0)

\* Cursor::seek / Cursor::slice forward from idx: the first item that the target
\* does not pass.  passed holds the items whose end the target lies beyond.
SeekForward(fragments, idx, passed) ==
    LET RECURSIVE Go(_)
        Go(i) == IF i <= Len(fragments) /\ i \in passed THEN Go(i + 1) ELSE i
    IN Go(idx)

\* seek(&document_id, Bias::Left) on LocalEditDimension
SeekDocument(fragments, idx, document_id) ==
    SeekForward(fragments, idx,
                {i \in DOMAIN fragments :
                     OpIdLess(fragments[i].document_id, document_id)})

\* seek(&(document_id, visible), Bias::Right) on LocalEditDimension
SeekDocumentVisible(fragments, idx, document_id, visible) ==
    SeekForward(fragments, idx,
                {i \in DOMAIN fragments :
                     \/ OpIdLess(fragments[i].document_id, document_id)
                     \/ /\ fragments[i].document_id = document_id
                        /\ EndVisible(fragments, i) <= visible})

\* a faulty max_location that forgets the fragments already pushed
MaxLocationMin(fragments) == DenseIdMin

\* summary().max_location of a sequence of fragments
MaxLocation(fragments) ==
    IF fragments = <<>> THEN DenseIdMin ELSE fragments[Len(fragments)].location

\* a faulty InsertionFragment::new that keys every fragment by the start of its
\* insertion
InsertionFragmentNewAtZero(fragment) ==
    [insertion_id |-> fragment.insertion_id,
     offset_in_insertion |-> 0,
     fragment_location |-> fragment.location]

\* InsertionFragment::new
InsertionFragmentNew(fragment) ==
    [insertion_id |-> fragment.insertion_id,
     offset_in_insertion |-> fragment.insertion_subrange.start,
     fragment_location |-> fragment.location]

\* key order of insertion_fragments: (insertion_id, offset_in_insertion)
InsertionKeyLess(a, b) ==
    \/ OpIdLess(a.insertion_id, b.insertion_id)
    \/ a.insertion_id = b.insertion_id /\ a.offset_in_insertion < b.offset_in_insertion

InsertionKeyEq(a, b) ==
    a.insertion_id = b.insertion_id /\ a.offset_in_insertion = b.offset_in_insertion

\* btree::Edit::Insert of one item into a keyed sequence: replaces the item of equal key
InsertionInsert(seq, item) ==
    SelectSeq(seq, LAMBDA x : InsertionKeyLess(x, item))
        \o <<item>>
        \o SelectSeq(seq, LAMBDA x : InsertionKeyLess(item, x))

\* Sequence::edit(new_insertions)
InsertionEdit(seq, new_insertions) ==
    LET RECURSIVE Go(_, _)
        Go(acc, i) == IF i > Len(new_insertions) THEN acc
                      ELSE Go(InsertionInsert(acc, new_insertions[i]), i + 1)
    IN Go(seq, 1)

\* Revision::default
DefaultRevision ==
    [document_metadata |-> {},
     document_fragments |-> <<>>,
     insertion_fragments |-> <<>>,
     visible_text |-> <<>>,
     hidden_text |-> <<>>]

\* Revision::document_visible_start
DocumentVisibleStart(revision, document_id) ==
    StartVisible(revision.document_fragments,
                 SeekDocument(revision.document_fragments, 1, document_id))

\* a faulty document_visible_range that runs to the end of the visible text
DocumentVisibleRangeToEnd(revision, document_id) ==
    [start |-> StartVisible(revision.document_fragments,
                            SeekDocument(revision.document_fragments, 1, document_id)),
     end |-> Len(revision.visible_text)]

\* Revision::document_visible_range
DocumentVisibleRange(revision, document_id) ==
    LET fragments == revision.document_fragments
        next_doc_id == OperationId(document_id.replica_id, document_id.operation_count + 1)
        From(first) ==
            [start |-> StartVisible(fragments, first),
             end |-> StartVisible(fragments, SeekDocument(fragments, first, next_doc_id))]
    IN From(SeekDocument(fragments, 1, document_id))

\* Rope::slice on the visible text
RopeSlice(rope, range) ==
    IF range.end <= range.start THEN <<>> ELSE SubSeq(rope, range.start + 1, range.end)

\* Document::text on a revision
DocumentText(revision, document_id) ==
    RopeSlice(revision.visible_text, DocumentVisibleRange(revision, document_id))

\* Document::len on a revision
DocumentLen(revision, document_id) ==
    LET RangeLen(r) == r.end - r.start
    IN RangeLen(DocumentVisibleRange(revision, document_id))

\* CreateDocument::apply: the document's metadata, and its sentinel fragment at
\* DenseId::min() placed by document id; the sentinel is indexed like any fragment
CreateDocumentApply(op, revision) ==
    LET fragments == revision.document_fragments
        Placed(sentinel, at) ==
            [revision EXCEPT
               !.document_metadata = @ \cup {op.id},
               !.document_fragments =
                   SubSeq(fragments, 1, at - 1) \o <<sentinel>>
                       \o SubSeq(fragments, at, Len(fragments)),
               !.insertion_fragments = InsertionInsert(@, InsertionFragmentNew(sentinel))]
    IN Placed([document_id |-> op.id,
               location |-> DenseIdMin,
               insertion_id |-> op.id,
               insertion_subrange |-> [start |-> 0, end |-> 0],
               tombstones |-> <<>>,
               undo_count |-> 0],
              \* Cursor::slice(&op.id, Bias::Right)
              SeekForward(fragments, 1,
                          {i \in DOMAIN fragments : OpIdLeq(fragments[i].document_id, op.id)}))

(***************************************************************************)
(* RopeBuilder.  A rope is the sequence of its characters; a rope cursor   *)
(* is the number of characters already consumed.                           *)
(***************************************************************************)
\* RopeBuilder::new
RopeBuilderNew ==
    [old_visible_cursor |-> 0, old_hidden_cursor |-> 0, new_visible |-> <<>>, new_hidden |-> <<>>]

\* rope::Cursor::slice(end_offset): the characters from the cursor up to end_offset
CursorSlice(rope, from, to) == SubSeq(rope, from + 1, Min2(to, Len(rope)))

\* a faulty RopeBuilder::push that leaves the text in the rope it came from
RopeBuilderPushInPlace(rb, revision, len, was_visible, is_visible) ==
    IF was_visible
    THEN [rb EXCEPT !.old_visible_cursor = @ + len,
                    !.new_visible = @ \o CursorSlice(revision.visible_text,
                                                     rb.old_visible_cursor,
                                                     rb.old_visible_cursor + len)]
    ELSE [rb EXCEPT !.old_hidden_cursor = @ + len,
                    !.new_hidden = @ \o CursorSlice(revision.hidden_text,
                                                    rb.old_hidden_cursor,
                                                    rb.old_hidden_cursor + len)]

\* RopeBuilder::push
RopeBuilderPush(rb, revision, len, was_visible, is_visible) ==
    LET Pushed(text, moved) ==
            IF is_visible
            THEN [moved EXCEPT !.new_visible = @ \o text]
            ELSE [moved EXCEPT !.new_hidden = @ \o text]
    IN Pushed(IF was_visible
              THEN CursorSlice(revision.visible_text, rb.old_visible_cursor,
                               rb.old_visible_cursor + len)
              ELSE CursorSlice(revision.hidden_text, rb.old_hidden_cursor,
                               rb.old_hidden_cursor + len),
              IF was_visible
              THEN [rb EXCEPT !.old_visible_cursor = @ + len]
              ELSE [rb EXCEPT !.old_hidden_cursor = @ + len])

\* RopeBuilder::append
RopeBuilderAppend(rb, revision, visible_len, hidden_len) ==
    RopeBuilderPush(RopeBuilderPush(rb, revision, visible_len, TRUE, TRUE),
                    revision, hidden_len, FALSE, FALSE)

\* RopeBuilder::push_fragment
RopeBuilderPushFragment(rb, revision, fragment, was_visible) ==
    RopeBuilderPush(rb, revision, FragmentLen(fragment), was_visible, Visible(fragment))

\* a faulty RopeBuilder::push_str that puts the new text into the hidden rope
RopeBuilderPushStrHidden(rb, text) == [rb EXCEPT !.new_hidden = @ \o text]

\* RopeBuilder::push_str
RopeBuilderPushStr(rb, text) == [rb EXCEPT !.new_visible = @ \o text]

\* RopeBuilder::finish
RopeBuilderFinish(rb, revision) ==
    [visible_text |-> rb.new_visible
         \o CursorSlice(revision.visible_text, rb.old_visible_cursor, Len(revision.visible_text)),
     hidden_text |-> rb.new_hidden
         \o CursorSlice(revision.hidden_text, rb.old_hidden_cursor, Len(revision.hidden_text))]

(***************************************************************************)
(* Document::edit.  The state of the loop is a record: the old cursor's    *)
(* item index, the new fragment sequence, the insertion edits, the rope    *)
(* builder, fragment_start, insertion_offset and the anchored edits.       *)
(***************************************************************************)
BiasLeft == "left"
BiasRight == "right"

\* new_insertions.push; new_ropes.push_fragment; new_fragments.push
EditPushFragment(s, revision, fragment, was_visible) ==
    [s EXCEPT !.new_insertions = Append(@, InsertionFragmentNew(fragment)),
              !.new_ropes = RopeBuilderPushFragment(@, revision, fragment, was_visible),
              !.new_fragments = Append(@, fragment)]

\* new_ropes.append(slice.summary()); new_fragments.append(slice)
EditAppendSlice(s, revision, to) ==
    LET old == revision.document_fragments
    IN [s EXCEPT !.new_ropes = RopeBuilderAppend(@, revision,
                                                 SliceVisibleLen(old, s.idx, to - 1),
                                                 SliceHiddenLen(old, s.idx, to - 1)),
                 !.new_fragments = @ \o SubSeq(old, s.idx, to - 1),
                 !.idx = to]

\* lines 1225-1245: the current fragment ends before this range
EditJumpAhead(s, revision, document_id, range) ==
    LET old == revision.document_fragments
    IN With(StartVisible(old, s.idx),
            LAMBDA start :
       With(IF s.fragment_start > start
            THEN [(IF EndVisible(old, s.idx) > s.fragment_start
                   THEN With([old[s.idx] EXCEPT
                                !.insertion_subrange.start = @ + (s.fragment_start - start)],
                             LAMBDA suffix :
                               EditPushFragment(s, revision, suffix, Visible(suffix)))
                   ELSE s) EXCEPT !.idx = @ + 1]
            ELSE s,
            LAMBDA s1 :
       With(EditAppendSlice(s1, revision,
                            SeekDocumentVisible(old, s1.idx, document_id, range.start)),
            LAMBDA s2 :
              [s2 EXCEPT !.fragment_start = StartVisible(old, s2.idx)])))

\* lines 1271-1284: the portion of the current fragment that precedes the range
EditPrefix(s, revision, range) ==
    LET old == revision.document_fragments
    IN IF s.fragment_start < range.start
       THEN With(old[s.idx].insertion_subrange.start
                     + (s.fragment_start - StartVisible(old, s.idx)),
                 LAMBDA sub_start :
            With([old[s.idx] EXCEPT
                    !.insertion_subrange =
                        [start |-> sub_start,
                         end |-> sub_start + (range.start - s.fragment_start)],
                    !.location = DenseBetween(MaxLocation(s.new_fragments),
                                              old[s.idx].location)],
                 LAMBDA prefix :
                   [EditPushFragment(s, revision, prefix, Visible(prefix))
                       EXCEPT !.fragment_start = range.start]))
       ELSE s

RECURSIVE EditTombstone(_, _, _, _)
\* lines 1286-1318: every fragment that intersects the range
EditTombstone(s, revision, operation_id, range) ==
    IF ~(s.fragment_start < range.end) THEN s
    ELSE
      LET old == revision.document_fragments
          fragment == old[s.idx]
      IN With(EndVisible(old, s.idx),
              LAMBDA fragment_end :
         With(Min2(range.end, fragment_end),
              LAMBDA intersection_end :
         With(fragment.insertion_subrange.start
                  + (s.fragment_start - StartVisible(old, s.idx)),
              LAMBDA sub_start :
         With(IF Visible(fragment)
              THEN [fragment EXCEPT
                      !.insertion_subrange =
                          [start |-> sub_start,
                           end |-> sub_start + (intersection_end - s.fragment_start)],
                      !.location = DenseBetween(MaxLocation(s.new_fragments),
                                                fragment.location),
                      !.tombstones = Append(@, [id |-> operation_id, undo_count |-> 0])]
              ELSE fragment,
              LAMBDA intersection :
         With(IF FragmentLen(intersection) > 0
              THEN [EditPushFragment(s, revision, intersection, Visible(fragment))
                       EXCEPT !.fragment_start = intersection_end]
              ELSE s,
              LAMBDA s1 :
                EditTombstone(IF fragment_end <= range.end
                              THEN [s1 EXCEPT !.idx = @ + 1]
                              ELSE s1,
                              revision, operation_id, range))))))

\* old_fragments.item() when it belongs to the document: its index, or 0
EditItemOfDocument(old, idx, document_id) ==
    IF idx <= Len(old) /\ old[idx].document_id = document_id THEN idx ELSE 0

\* lines 1254-1269 and 1347-1362: the anchor of a range end
EditAnchor(old, idx, item, offset, bias) ==
    IF offset = StartVisible(old, idx)
    THEN [insertion_id |-> old[idx - 1].insertion_id,
          offset_in_insertion |-> old[idx - 1].insertion_subrange.end,
          bias |-> bias]
    ELSE [insertion_id |-> old[item].insertion_id,
          offset_in_insertion |-> old[item].insertion_subrange.start
                                      + (offset - StartVisible(old, idx)),
          bias |-> bias]

\* lines 1327-1345: the fragment of the new text
EditInsert(s, revision, document_id, operation_id, new_text) ==
    LET old == revision.document_fragments
        end_fragment == EditItemOfDocument(old, s.idx, document_id)
    IN IF new_text # <<>>
       THEN With([document_id |-> document_id,
                  location |-> DenseBetween(MaxLocation(s.new_fragments),
                                            IF end_fragment = 0 THEN DenseIdMax
                                            ELSE old[end_fragment].location),
                  insertion_id |-> operation_id,
                  insertion_subrange |-> [start |-> s.insertion_offset,
                                          end |-> s.insertion_offset + Len(new_text)],
                  tombstones |-> <<>>,
                  undo_count |-> 0],
                 LAMBDA fragment :
                   [s EXCEPT !.new_insertions = Append(@, InsertionFragmentNew(fragment)),
                             !.new_ropes = RopeBuilderPushStr(@, new_text),
                             !.new_fragments = Append(@, fragment),
                             !.insertion_offset = @ + Len(new_text)])
       ELSE s

\* one iteration of the loop over the edits, lines 1220-1375
EditOne(s, revision, document_id, operation_id, range, new_text) ==
    LET old == revision.document_fragments
        AnchorAt(at, offset, bias) ==
            EditAnchor(old, at.idx, EditItemOfDocument(old, at.idx, document_id), offset, bias)
    IN With(IF EndVisible(old, s.idx) < range.start
            THEN EditJumpAhead(s, revision, document_id, range)
            ELSE s,
            LAMBDA s1 :
       With(AnchorAt(s1, range.start, BiasRight),
            LAMBDA edit_start :
       With(EditInsert(EditTombstone(EditPrefix(s1, revision, range),
                                     revision, operation_id, range),
                       revision, document_id, operation_id, new_text),
            LAMBDA s4 :
       With(AnchorAt(s4, range.end, BiasLeft),
            LAMBDA edit_end :
              [s4 EXCEPT !.edits =
                  Append(@, [range |->
                                 [document_id |-> document_id,
                                  start_insertion_id |-> edit_start.insertion_id,
                                  start_offset_in_insertion |->
                                      edit_start.offset_in_insertion,
                                  start_bias |-> edit_start.bias,
                                  end_insertion_id |-> edit_end.insertion_id,
                                  end_offset_in_insertion |-> edit_end.offset_in_insertion,
                                  end_bias |-> edit_end.bias],
                             text |-> new_text])]))))

\* lines 1377-1397: the rest of a partially consumed fragment, then the suffix
EditFinish(s, revision) ==
    LET old == revision.document_fragments
    IN With(StartVisible(old, s.idx),
            LAMBDA start :
       With(EndVisible(old, s.idx),
            LAMBDA fragment_end :
       With(old[s.idx].insertion_subrange.start + (s.fragment_start - start),
            LAMBDA sub_start :
              EditAppendSlice(
                  IF s.fragment_start > start
                  THEN [(IF fragment_end > s.fragment_start
                         THEN With([old[s.idx] EXCEPT
                                      !.insertion_subrange =
                                          [start |-> sub_start,
                                           end |-> sub_start
                                                       + (fragment_end - s.fragment_start)]],
                                   LAMBDA suffix :
                                     EditPushFragment(s, revision, suffix, Visible(suffix)))
                         ELSE s) EXCEPT !.idx = @ + 1]
                  ELSE s,
                  revision, Len(old) + 1))))

\* the loop of Document::edit over the edits, from the i-th on; the ranges are
\* made absolute with the start of the document
RECURSIVE EditLoop(_, _, _, _, _, _, _)
EditLoop(s, revision, document_id, operation_id, document_visible_start, edits, i) ==
    IF i > Len(edits) THEN s
    ELSE EditLoop(EditOne(s, revision, document_id, operation_id,
                          [start |-> document_visible_start + edits[i].range.start,
                           end |-> document_visible_start + edits[i].range.end],
                          edits[i].text),
                  revision, document_id, operation_id, document_visible_start, edits, i + 1)

\* Document::edit, the closure given to Branch::update: the edited revision and
\* the anchored edits of the Edit operation.  edits is a non-empty sequence of
\* [range |-> [start, end], text] with offsets relative to the document.
DocumentEdit(revision, document_id, operation_id, edits) ==
    LET old == revision.document_fragments
        s0 == [idx |-> 1,
               new_fragments |-> <<>>,
               new_insertions |-> <<>>,
               new_ropes |-> RopeBuilderNew,
               fragment_start |-> 0,
               insertion_offset |-> 0,
               edits |-> <<>>]
    IN With(SeekDocument(old, 1, document_id),
            LAMBDA first :
       With(StartVisible(old, first),
            LAMBDA document_visible_start :
       With(EditAppendSlice(s0, revision,
                            SeekDocumentVisible(old, first, document_id,
                                                document_visible_start
                                                    + edits[1].range.start)),
            LAMBDA s1 :
       With(EditFinish(
                EditLoop([s1 EXCEPT !.fragment_start = StartVisible(old, s1.idx)],
                         revision, document_id, operation_id, document_visible_start,
                         edits, 1),
                revision),
            LAMBDA s3 :
       With(RopeBuilderFinish(s3.new_ropes, revision),
            LAMBDA ropes :
              [revision |->
                  [revision EXCEPT
                     !.document_fragments = s3.new_fragments,
                     !.insertion_fragments = InsertionEdit(@, s3.new_insertions),
                     !.visible_text = ropes.visible_text,
                     !.hidden_text = ropes.hidden_text],
               edits |-> s3.edits])))))

(***************************************************************************)
(* Resolution of anchors against a revision.                               *)
(***************************************************************************)
\* usize::MAX, the open end of the subrange in visible_fragments_for_range, as
\* the largest integer of the model
UsizeMax == 2147483647

\* Revision::fragment_locations: the locations the cursor yields
FragmentLocations(revision, insertion_id, insertion_subrange) ==
    LET ins == revision.insertion_fragments
        target == [insertion_id |-> insertion_id,
                   offset_in_insertion |-> insertion_subrange.start]
        Taken(i) == /\ ins[i].insertion_id = insertion_id
                    /\ ins[i].offset_in_insertion < insertion_subrange.end
        RECURSIVE Take(_)
        Take(i) == IF i >= 1 /\ i <= Len(ins) /\ Taken(i)
                   THEN <<ins[i].fragment_location>> \o Take(i + 1)
                   ELSE <<>>
       \* cursor.seek(&(insertion_id, start), Bias::Left)
    IN With(SeekForward(ins, 1, {i \in DOMAIN ins : InsertionKeyLess(ins[i], target)}),
            LAMBDA at :
              \* avoid overshooting the last fragment
              Take(IF at > Len(ins) \/ OpIdLess(insertion_id, ins[at].insertion_id)
                   THEN at - 1 ELSE at))

\* order of document_fragments: (document_id, location)
FragmentKeyLess(fragment, document_id, location) ==
    \/ OpIdLess(fragment.document_id, document_id)
    \/ fragment.document_id = document_id /\ DenseLess(fragment.location, location)

\* Revision::visible_fragments_for_range: Err when the start fragment is not
\* found, else the fragments the iterator yields
VisibleFragmentsForRange(revision, range) ==
    LET fragments == revision.document_fragments
        RECURSIVE Yield(_)
        Yield(i) ==
            IF i > Len(fragments) \/ fragments[i].document_id # range.document_id
            THEN <<>>
            ELSE <<fragments[i]>>
                     \o Yield(SeekDocumentVisible(fragments, i, range.document_id,
                                                  EndVisible(fragments, i)))
    IN With(FragmentLocations(revision, range.start_insertion_id,
                              [start |-> range.start_offset_in_insertion,
                               end |-> UsizeMax]),
            LAMBDA locations :
              IF locations = <<>>
              THEN [ok |-> FALSE, fragments |-> <<>>]
              ELSE [ok |-> TRUE,
                    fragments |->
                        Yield(SeekForward(fragments, 1,
                                          {i \in DOMAIN fragments :
                                               FragmentKeyLess(fragments[i],
                                                               range.document_id,
                                                               locations[1])}))])

\* DocumentFragment::intersect: <<prefix, intersection, suffix>>, an absent
\* prefix or suffix being the empty sequence
Intersect(self, range) ==
    LET has_prefix == /\ range.start_insertion_id = self.insertion_id
                      /\ range.start_offset_in_insertion > self.insertion_subrange.start
        prefix == [self EXCEPT !.insertion_subrange.end = range.start_offset_in_insertion]
        cut == IF has_prefix
               THEN [self EXCEPT !.insertion_subrange.start = range.start_offset_in_insertion]
               ELSE self
        has_suffix == /\ range.end_insertion_id = cut.insertion_id
                      /\ range.end_offset_in_insertion > cut.insertion_subrange.start
                      /\ range.end_offset_in_insertion < cut.insertion_subrange.end
        suffix == [cut EXCEPT !.insertion_subrange.start = range.end_offset_in_insertion]
        intersection == IF has_suffix
                        THEN [cut EXCEPT !.insertion_subrange.end = range.end_offset_in_insertion]
                        ELSE cut
    IN <<IF has_prefix THEN <<prefix>> ELSE <<>>,
         intersection,
         IF has_suffix THEN <<suffix>> ELSE <<>>>>

(***************************************************************************)
(* Edit::apply, the replay of an Edit operation on a revision.  Each       *)
(* anchor (insertion_id, offset) names the boundary after the character    *)
(* offset - 1 of that insertion, or after the sentinel of the document.    *)
(* The fragments of the target revision between the two boundaries that    *)
(* were visible in the operation's parent revision are tombstoned, and the *)
(* new text is placed after the end boundary, as Document::edit does.      *)
(***************************************************************************)
\* hidden_len before item idx
StartHidden(fragments, idx) == SliceHiddenLen(fragments, 1, idx - 1)

\* the fragments of a revision, each with its text
FragmentTexts(revision) ==
    LET fragments == revision.document_fragments
    IN [i \in DOMAIN fragments |->
          [f |-> fragments[i],
           t |-> IF Visible(fragments[i])
                 THEN CursorSlice(revision.visible_text, StartVisible(fragments, i),
                                  EndVisible(fragments, i))
                 ELSE CursorSlice(revision.hidden_text, StartHidden(fragments, i),
                                  StartHidden(fragments, i) + FragmentLen(fragments[i]))]]

\* the part [from, to) of an insertion held by an item
Piece(item, from, to) ==
    [f |-> [item.f EXCEPT !.insertion_subrange = [start |-> from, end |-> to]],
     t |-> SubSeq(item.t, from - item.f.insertion_subrange.start + 1,
                  to - item.f.insertion_subrange.start)]

\* index of the item that ends at or contains the boundary of an anchor, or 0
AnchorIndex(items, document_id, insertion_id, offset) ==
    LET Holds(i) == /\ items[i].f.document_id = document_id
                    /\ items[i].f.insertion_id = insertion_id
                    /\ IF offset = 0
                       THEN items[i].f.insertion_subrange.end = 0
                       ELSE /\ items[i].f.insertion_subrange.start < offset
                            /\ offset <= items[i].f.insertion_subrange.end
        found == {i \in DOMAIN items : Holds(i)}
    IN IF found = {} THEN 0 ELSE CHOOSE i \in found : \A j \in found : i <= j

\* whether the parent revision shows the character (insertion_id, offset)
ParentVisible(parent_revision, insertion_id, offset) ==
    \E i \in DOMAIN parent_revision.document_fragments :
        LET fragment == parent_revision.document_fragments[i]
        IN /\ fragment.insertion_id = insertion_id
           /\ fragment.insertion_subrange.start <= offset
           /\ offset < fragment.insertion_subrange.end
           /\ Visible(fragment)

\* whether the parent revision knows the insertion
ParentKnows(parent_revision, insertion_id) ==
    \E i \in DOMAIN parent_revision.document_fragments :
        parent_revision.document_fragments[i].insertion_id = insertion_id

ItemsMaxLocation(items) ==
    IF items = <<>> THEN DenseIdMin ELSE items[Len(items)].f.location

\* an item pushed with a fresh location after the items emitted so far
Relocated(out, item) ==
    [item EXCEPT !.f.location = DenseBetween(ItemsMaxLocation(out), item.f.location)]

\* the items of index s..e rewritten by one edit, up to the end boundary: the
\* part before the start boundary, then the parts inside the range
RECURSIVE ApplyRange(_, _, _, _, _, _, _, _, _)
ApplyRange(out, items, i, s, start_offset, e, end_offset, parent_revision, operation_id) ==
    IF i > e THEN out
    ELSE
      LET item == items[i]
          sub == item.f.insertion_subrange
          from == IF i = s THEN start_offset ELSE sub.start
          to == IF i = e THEN end_offset ELSE sub.end
      IN ApplyRange(
             With(IF i # s THEN out
                  ELSE IF from = sub.end THEN Append(out, item)
                  ELSE Append(out, Relocated(out, Piece(item, sub.start, from))),
                  LAMBDA out1 :
                    IF from >= to THEN out1
                    ELSE With(Piece(item, from, to),
                              LAMBDA middle :
                                IF ParentVisible(parent_revision, item.f.insertion_id, from)
                                THEN Append(out1,
                                            Relocated(out1,
                                                      [middle EXCEPT !.f.tombstones =
                                                          Append(@, [id |-> operation_id,
                                                                     undo_count |-> 0])]))
                                ELSE IF to = sub.end THEN Append(out1, middle)
                                ELSE Append(out1, Relocated(out1, middle)))),
             items, i + 1, s, start_offset, e, end_offset, parent_revision, operation_id)

\* the items that follow the end boundary and precede the new text: insertions
\* of the same document made by causally later operations unknown to the parent
SkipLater(items, k, document_id, parent_revision, operation_id) ==
    SeekForward(items, k,
                {i \in DOMAIN items :
                     /\ items[i].f.document_id = document_id
                     /\ IsCausallyAfter(items[i].f.insertion_id, operation_id)
                     /\ ~ParentKnows(parent_revision, items[i].f.insertion_id)})

\* the texts of the visible (or of the hidden) items, in order
ItemsText(items, visible) ==
    LET RECURSIVE Go(_)
        Go(i) == IF i > Len(items) THEN <<>>
                 ELSE (IF Visible(items[i].f) = visible THEN items[i].t ELSE <<>>) \o Go(i + 1)
    IN Go(1)

\* the items changed by the edit spliced into the revision
EditApplySplice(revision, items, s, k, changed) ==
    With(changed \o SubSeq(items, k, Len(items)),
         LAMBDA new_items :
           [ok |-> TRUE,
            revision |->
                [revision EXCEPT
                   !.document_fragments = [i \in DOMAIN new_items |-> new_items[i].f],
                   !.insertion_fragments =
                       InsertionEdit(@, [i \in 1..(Len(changed) - (s - 1)) |->
                                            InsertionFragmentNew(changed[s - 1 + i].f)]),
                   !.visible_text = ItemsText(new_items, TRUE),
                   !.hidden_text = ItemsText(new_items, FALSE)]])

\* the new text, placed after the items skipped and before the rest of the
\* item that holds the end boundary
EditApplyInsert(items, document_id, operation_id, new_text, insertion_offset, k, skipped, has_suffix, suffix) ==
    skipped
      \o (IF new_text # <<>>
          THEN << [f |-> [document_id |-> document_id,
                          location |->
                              DenseBetween(ItemsMaxLocation(skipped),
                                           IF has_suffix THEN suffix.f.location
                                           ELSE IF k <= Len(items)
                                                   /\ items[k].f.document_id = document_id
                                           THEN items[k].f.location
                                           ELSE DenseIdMax),
                          insertion_id |-> operation_id,
                          insertion_subrange |-> [start |-> insertion_offset,
                                                  end |-> insertion_offset + Len(new_text)],
                          tombstones |-> <<>>,
                          undo_count |-> 0],
                   t |-> new_text] >>
          ELSE <<>>)
      \o (IF has_suffix THEN <<suffix>> ELSE <<>>)

\* the edit between the boundaries s (at start_offset) and e (at end_offset)
EditApplyBetween(revision, items, parent_revision, operation_id, document_id, new_text, insertion_offset, s, start_offset, e, end_offset) ==
    With(end_offset < items[e].f.insertion_subrange.end,
         LAMBDA has_suffix :
    With(IF has_suffix THEN e + 1
         ELSE SkipLater(items, e + 1, document_id, parent_revision, operation_id),
         LAMBDA k :
           EditApplySplice(
               revision, items, s, k,
               EditApplyInsert(
                   items, document_id, operation_id, new_text, insertion_offset, k,
                   ApplyRange(SubSeq(items, 1, s - 1), items, s, s, start_offset, e,
                              end_offset, parent_revision, operation_id)
                       \o SubSeq(items, e + 1, k - 1),
                   has_suffix,
                   Piece(items[e], end_offset, items[e].f.insertion_subrange.end)))))

\* one (AnchorRange, text) pair of an Edit applied to a revision
EditApplyOne(revision, parent_revision, operation_id, range, new_text, insertion_offset) ==
    With(FragmentTexts(revision),
         LAMBDA items :
    With(AnchorIndex(items, range.document_id, range.start_insertion_id,
                     range.start_offset_in_insertion),
         LAMBDA s :
    With(AnchorIndex(items, range.document_id, range.end_insertion_id,
                     range.end_offset_in_insertion),
         LAMBDA e0 :
           LET backwards == e0 < s \/ (e0 = s /\ range.end_offset_in_insertion
                                                   < range.start_offset_in_insertion)
           IN IF ~VisibleFragmentsForRange(parent_revision, range).ok \/ s = 0 \/ e0 = 0
              THEN [ok |-> FALSE, revision |-> revision]
              ELSE EditApplyBetween(revision, items, parent_revision, operation_id,
                                    range.document_id, new_text, insertion_offset,
                                    s, range.start_offset_in_insertion,
                                    IF backwards THEN s ELSE e0,
                                    IF backwards THEN range.start_offset_in_insertion
                                    ELSE range.end_offset_in_insertion))))

\* the loop of Edit::apply over the edits of the operation, from edit i on
RECURSIVE EditApplyFrom(_, _, _, _, _, _)
EditApplyFrom(op, parent_revision, revision, rev, i, insertion_offset) ==
    IF i > Len(op.edits) THEN [ok |-> TRUE, revision |-> rev]
    ELSE With(EditApplyOne(rev, parent_revision, op.id, op.edits[i].range,
                           op.edits[i].text, insertion_offset),
              LAMBDA one :
                IF one.ok
                THEN EditApplyFrom(op, parent_revision, revision, one.revision, i + 1,
                                   insertion_offset + Len(op.edits[i].text))
                ELSE [ok |-> FALSE, revision |-> revision])

\* Edit::apply(parent_revision, revision): Err when an anchor does not resolve
EditApply(op, parent_revision, revision) ==
    EditApplyFrom(op, parent_revision, revision, revision, 1, 0)

(***************************************************************************)
(* Operations.  One record shape for the three variants; the fields that a *)
(* variant does not have hold the default value.                           *)
(***************************************************************************)
CreateBranchOp(id, name) ==
    [type |-> "CreateBranch", id |-> id, name |-> name, branch_id |-> DefaultOperationId,
     document_id |-> DefaultOperationId, parent |-> EmptyRevisionId, edits |-> <<>>]

CreateDocumentOp(id, branch_id, parent) ==
    [type |-> "CreateDocument", id |-> id, name |-> "", branch_id |-> branch_id,
     document_id |-> DefaultOperationId, parent |-> parent, edits |-> <<>>]

EditOp(id, document_id, branch_id, parent, edits) ==
    [type |-> "Edit", id |-> id, name |-> "", branch_id |-> branch_id,
     document_id |-> document_id, parent |-> parent, edits |-> edits]

(***************************************************************************)
(* RepoSnapshot.  A btree::Map is a function on its set of keys.           *)
(***************************************************************************)
EmptyMap == <<>>

\* btree::Map::insert
MapInsert(m, k, v) == [x \in (DOMAIN m) \cup {k} |-> IF x = k THEN v ELSE m[x]]

\* RepoSnapshot::default
DefaultRepoSnapshot ==
    [last_operation_id |-> DefaultOperationId,
     branches |-> EmptyMap,
     branch_ids_by_name |-> EmptyMap,
     operations |-> EmptyMap,
     revisions |-> MapInsert(EmptyMap, EmptyRevisionId, DefaultRevision),
     max_operation_ids |-> EmptyMap,
     deferred_operations |-> <<>>]

\* a faulty save that stores an empty sequence of deferred operations
RepoSnapshotSaveNoDeferred(repo) ==
    [last_operation_id |-> repo.last_operation_id,
     branches |-> repo.branches,
     branch_ids_by_name |-> repo.branch_ids_by_name,
     operations |-> repo.operations,
     max_operation_ids |-> repo.max_operation_ids,
     deferred_operations |-> <<>>]

\* RepoSnapshot::save: the SavedRepoSnapshot stored under the key of the
\* repository, with the trees it refers to
RepoSnapshotSave(repo) ==
    [last_operation_id |-> repo.last_operation_id,
     branches |-> repo.branches,
     branch_ids_by_name |-> repo.branch_ids_by_name,
     operations |-> repo.operations,
     max_operation_ids |-> repo.max_operation_ids,
     deferred_operations |-> repo.deferred_operations]

\* RepoSnapshot::load of a SavedRepoSnapshot: revisions is Default::default(),
\* the empty map
RepoSnapshotLoad(saved) ==
    [last_operation_id |-> saved.last_operation_id,
     branches |-> saved.branches,
     branch_ids_by_name |-> saved.branch_ids_by_name,
     operations |-> saved.operations,
     revisions |-> EmptyMap,
     max_operation_ids |-> saved.max_operation_ids,
     deferred_operations |-> saved.deferred_operations]

\* a KvStore in which no repository has been stored
NoSavedRepoSnapshot == EmptyMap

\* a faulty save_operation that records the count of the operation saved last
\* instead of the largest
SaveOperationLast(repo, operation) ==
    [repo EXCEPT
       !.max_operation_ids = MapInsert(@, operation.id.replica_id,
                                       operation.id.operation_count),
       !.last_operation_id = ObserveId(@, operation.id),
       !.operations = MapInsert(@, operation.id, operation)]

\* RepoSnapshot::save_operation
SaveOperation(repo, operation) ==
    LET replica_id == operation.id.replica_id
        count == operation.id.operation_count
    IN [repo EXCEPT
          !.max_operation_ids =
              IF replica_id \notin DOMAIN @ \/ @[replica_id] < count
              THEN MapInsert(@, replica_id, count)
              ELSE @,
          !.last_operation_id = ObserveId(@, operation.id),
          !.operations = MapInsert(@, operation.id, operation)]

\* RepoSnapshot::create_empty_branch: the snapshot, the operation and the branch id
RepoCreateEmptyBranch(repo, name) ==
    LET branch_id == Tick(repo.last_operation_id)
    IN [repo |-> [repo EXCEPT
                    !.last_operation_id = branch_id,
                    !.branches = MapInsert(@, branch_id,
                                           [name |-> name, head |-> RevisionIdFrom(branch_id)])],
        operation |-> CreateBranchOp(branch_id, name),
        branch_id |-> branch_id]

\* the ids of a set in the order of the BTreeSet of load_revision: (count, replica)
CountOrderLess(a, b) ==
    \/ a.operation_count < b.operation_count
    \/ a.operation_count = b.operation_count /\ a.replica_id < b.replica_id

RECURSIVE SortByCount(_)
SortByCount(ids) ==
    IF ids = {} THEN <<>>
    ELSE LET least == CHOOSE a \in ids : \A b \in ids \ {a} : CountOrderLess(a, b)
         IN <<least>> \o SortByCount(ids \ {least})

\* a faulty MaxCount, one operation too far: the first operation after the
\* common ancestor is taken for one the ancestor already holds
MaxCountTooLarge(revision_id) ==
    LET RECURSIVE Go(_)
        Go(i) == IF i > Len(revision_id) THEN 0
                 ELSE Max2(revision_id[i].operation_count + 2, Go(i + 1))
    IN Go(1)

\* the largest operation_count of a RevisionId, 0 standing for None
MaxCount(revision_id) ==
    LET RECURSIVE Go(_)
        Go(i) == IF i > Len(revision_id) THEN 0
                 ELSE Max2(revision_id[i].operation_count, Go(i + 1))
    IN Go(1)

\* the searches pushed for the ids of a RevisionId, in its order
SearchesFor(repo, start_of, revision_id) ==
    [i \in DOMAIN revision_id |->
        [start |-> IF start_of = DefaultOperationId THEN revision_id[i] ELSE start_of,
         ancestor |-> repo.operations[revision_id[i]].parent]]

\* the backward search of load_revision: the common ancestor's revision, the
\* start of the missing operations and the collected operation ids, with
\* whether the search stopped at a cached revision and at which one.  A parent id
\* that is not in the log is the failed expect("operation must exist").
RECURSIVE SearchAncestors(_, _, _, _, _)
SearchAncestors(repo, revision_id, searches, ancestors, operations) ==
    IF searches = <<>>
    THEN [panic |-> FALSE, revision |-> DefaultRevision, start |-> 0, operations |-> operations,
          cached |-> FALSE, ancestor |-> <<>>]
    ELSE
      LET search == Head(searches)
          reachable_from ==
              (IF search.ancestor \in DOMAIN ancestors THEN ancestors[search.ancestor] ELSE {})
                  \cup {search.start}
      IN IF /\ Cardinality(reachable_from) = Len(revision_id)
            /\ search.ancestor \in DOMAIN repo.revisions
         THEN [panic |-> FALSE,
               revision |-> repo.revisions[search.ancestor],
               start |-> IF search.ancestor = <<>> THEN 0 ELSE MaxCount(search.ancestor) + 1,
               operations |-> operations, cached |-> TRUE, ancestor |-> search.ancestor]
         ELSE IF \E i \in DOMAIN search.ancestor : search.ancestor[i] \notin DOMAIN repo.operations
         THEN [panic |-> TRUE, revision |-> DefaultRevision, start |-> 0,
               operations |-> operations, cached |-> FALSE, ancestor |-> <<>>]
         ELSE SearchAncestors(repo, revision_id,
                              Tail(searches) \o SearchesFor(repo, search.start, search.ancestor),
                              MapInsert(ancestors, search.ancestor, reachable_from),
                              operations \cup Range(search.ancestor))

\* RepoSnapshot::load_revision: whether it returned Ok, whether it panicked, the
\* revision, and the snapshot with the revisions cached on the way
RECURSIVE LoadRevision(_, _)

\* the loop of load_revision over the operations found missing, from the i-th on
RECURSIVE ReplayMissing(_, _, _, _, _)
ReplayMissing(snapshot, revision_id, missing, revision, i) ==
    IF i > Len(missing)
    THEN [ok |-> TRUE, panic |-> FALSE, revision |-> revision,
          repo |-> [snapshot EXCEPT !.revisions = MapInsert(@, revision_id, revision)]]
    ELSE IF missing[i] \notin DOMAIN snapshot.operations
    THEN [ok |-> FALSE, panic |-> TRUE, revision |-> revision, repo |-> snapshot]
    ELSE
      LET op == snapshot.operations[missing[i]]
      IN IF op.type = "CreateDocument"
         THEN ReplayMissing(snapshot, revision_id, missing,
                            CreateDocumentApply(op, revision), i + 1)
         ELSE IF op.type = "CreateBranch"
         THEN ReplayMissing(snapshot, revision_id, missing, revision, i + 1)
         ELSE With(LoadRevision(snapshot, op.parent),
                   LAMBDA parent :
                     IF ~parent.ok
                     THEN [ok |-> FALSE, panic |-> parent.panic, revision |-> revision,
                           repo |-> parent.repo]
                     ELSE With(EditApply(op, parent.revision, revision),
                               LAMBDA applied :
                                 IF ~applied.ok
                                 THEN [ok |-> FALSE, panic |-> FALSE,
                                       revision |-> revision, repo |-> parent.repo]
                                 ELSE ReplayMissing(parent.repo, revision_id, missing,
                                                    applied.revision, i + 1)))

LoadRevision(repo, revision_id) ==
    IF revision_id \in DOMAIN repo.revisions
    THEN [ok |-> TRUE, panic |-> FALSE, revision |-> repo.revisions[revision_id], repo |-> repo]
    ELSE IF \E i \in DOMAIN revision_id : revision_id[i] \notin DOMAIN repo.operations
    THEN [ok |-> FALSE, panic |-> FALSE, revision |-> DefaultRevision, repo |-> repo]
    ELSE With(SearchAncestors(repo, revision_id,
                              SearchesFor(repo, DefaultOperationId, revision_id),
                              EmptyMap, Range(revision_id)),
              LAMBDA found :
                IF found.panic
                THEN [ok |-> FALSE, panic |-> TRUE, revision |-> DefaultRevision,
                      repo |-> repo]
                ELSE ReplayMissing(repo, revision_id,
                                   SortByCount({id \in found.operations :
                                                    id.operation_count >= found.start}),
                                   found.revision, 1))

\* Ord for DeferredOperation: by parent, then by the id of the operation
DeferredLess(a, b) ==
    \/ OpIdLess(a.parent, b.parent)
    \/ a.parent = b.parent /\ OpIdLess(a.operation.id, b.operation.id)

\* Sequence::insert_or_replace on deferred_operations, keyed by (parent, operation id)
DeferredInsertOrReplace(deferred, entry) ==
    SelectSeq(deferred, LAMBDA x : DeferredLess(x, entry))
        \o <<entry>>
        \o SelectSeq(deferred, LAMBDA x : DeferredLess(entry, x))

\* the else branch of apply_operations: one entry for each id of parent()
Defer(repo, operation) ==
    LET RECURSIVE Go(_, _)
        Go(deferred, i) ==
            IF i > Len(operation.parent) THEN deferred
            ELSE Go(DeferredInsertOrReplace(deferred, [parent |-> operation.parent[i],
                                                       operation |-> operation]),
                    i + 1)
    IN [repo EXCEPT !.deferred_operations = Go(@, 1)]

\* a faulty flush_deferred_operations that keeps only the entries before the
\* parent and forgets the suffix
FlushDeferredOperationsNoSuffix(repo, parent_id) ==
    LET deferred == repo.deferred_operations
        flushed == SelectSeq(deferred, LAMBDA x : x.parent = parent_id)
    IN [repo |-> [repo EXCEPT !.deferred_operations =
                                  SelectSeq(deferred, LAMBDA x : OpIdLess(x.parent, parent_id))],
        operations |-> [i \in DOMAIN flushed |-> flushed[i].operation]]

\* the debug assertion of Summary::add_summary for OperationId: the summary
\* added is greater than the summary accumulated
AddSummaryAssertion(self, summary) == OpIdLess(self, summary)

\* the fold of the summaries of the entries of deferred_operations, which the
\* tree computes for its nodes from left to right: the summary of an entry is
\* its parent, and add_summary leaves the summary that was added
DeferredSummaryFold(deferred) ==
    \A i \in 1..(Len(deferred) - 1) :
       AddSummaryAssertion(deferred[i].parent, deferred[i + 1].parent)

\* RepoSnapshot::flush_deferred_operations: the remaining entries and the
\* operations appended to the queue
FlushDeferredOperations(repo, parent_id) ==
    LET deferred == repo.deferred_operations
        flushed == SelectSeq(deferred, LAMBDA x : x.parent = parent_id)
    IN [repo |-> [repo EXCEPT !.deferred_operations =
                                  SelectSeq(deferred, LAMBDA x : x.parent # parent_id)],
        operations |-> [i \in DOMAIN flushed |-> flushed[i].operation]]

\* a faulty branch arm of apply_operations that computes the new head of a
\* CreateDocument or Edit but leaves the branch at its old head
ApplyToBranchStale(repo, operation) ==
    IF operation.type = "CreateBranch"
    THEN [ok |-> TRUE,
          new_head |-> RevisionIdFrom(operation.id),
          repo |-> [repo EXCEPT !.branches =
                       MapInsert(@, operation.id, [name |-> operation.name,
                                                   head |-> RevisionIdFrom(operation.id)])]]
    ELSE IF operation.branch_id \in DOMAIN repo.branches
    THEN [ok |-> TRUE,
          new_head |-> RevisionIdObserve(repo.branches[operation.branch_id].head,
                                         operation.id, operation.parent),
          repo |-> repo]
    ELSE [ok |-> FALSE, new_head |-> EmptyRevisionId, repo |-> repo]

\* a faulty branch arm of apply_operations that goes on to save a
\* CreateDocument or Edit whose branch does not exist
ApplyToBranchAnyway(repo, operation) ==
    IF operation.type = "CreateBranch"
    THEN [ok |-> TRUE,
          new_head |-> RevisionIdFrom(operation.id),
          repo |-> [repo EXCEPT !.branches =
                       MapInsert(@, operation.id, [name |-> operation.name,
                                                   head |-> RevisionIdFrom(operation.id)])]]
    ELSE IF operation.branch_id \in DOMAIN repo.branches
    THEN LET new_head == RevisionIdObserve(repo.branches[operation.branch_id].head,
                                           operation.id, operation.parent)
         IN [ok |-> TRUE,
             new_head |-> new_head,
             repo |-> [repo EXCEPT !.branches[operation.branch_id].head = new_head]]
    ELSE [ok |-> TRUE, new_head |-> operation.parent, repo |-> repo]

\* the branch arm of apply_operations: the new head, or <<>> with ok false when
\* the branch of a CreateDocument or Edit does not exist
ApplyToBranch(repo, operation) ==
    IF operation.type = "CreateBranch"
    THEN [ok |-> TRUE,
          new_head |-> RevisionIdFrom(operation.id),
          repo |-> [repo EXCEPT !.branches =
                       MapInsert(@, operation.id, [name |-> operation.name,
                                                   head |-> RevisionIdFrom(operation.id)])]]
    ELSE IF operation.branch_id \in DOMAIN repo.branches
    THEN LET new_head == RevisionIdObserve(repo.branches[operation.branch_id].head,
                                           operation.id, operation.parent)
         IN [ok |-> TRUE,
             new_head |-> new_head,
             repo |-> [repo EXCEPT !.branches[operation.branch_id].head = new_head]]
    ELSE [ok |-> FALSE, new_head |-> EmptyRevisionId, repo |-> repo]

\* a faulty apply_operations that applies an operation without looking for its
\* parents in the log
RECURSIVE ApplyOperationsUnordered(_, _)
ApplyOperationsUnordered(repo, operations) ==
    IF operations = <<>> THEN [repo |-> repo, panic |-> FALSE]
    ELSE
      LET operation == Head(operations)
          rest == Tail(operations)
          branched == ApplyToBranch(repo, operation)
          saved == SaveOperation(branched.repo, operation)
          flushed == FlushDeferredOperations(saved, operation.id)
          loaded == LoadRevision(flushed.repo, branched.new_head)
      IN IF operation.id \in DOMAIN repo.operations \/ ~branched.ok
         THEN ApplyOperationsUnordered(repo, rest)
         ELSE IF loaded.panic
         THEN [repo |-> loaded.repo, panic |-> TRUE]
         ELSE ApplyOperationsUnordered(loaded.repo, rest \o flushed.operations)

\* a faulty apply_operations that does not look for the id of an operation in
\* the log before applying it
RECURSIVE ApplyOperationsAgain(_, _)
ApplyOperationsAgain(repo, operations) ==
    IF operations = <<>> THEN [repo |-> repo, panic |-> FALSE]
    ELSE
      LET operation == Head(operations)
          rest == Tail(operations)
          branched == ApplyToBranch(repo, operation)
          saved == SaveOperation(branched.repo, operation)
          flushed == FlushDeferredOperations(saved, operation.id)
          loaded == LoadRevision(flushed.repo, branched.new_head)
      IN IF \A i \in DOMAIN operation.parent : operation.parent[i] \in DOMAIN repo.operations
         THEN IF ~branched.ok
              THEN ApplyOperationsAgain(repo, rest)
              ELSE IF loaded.panic
              THEN [repo |-> loaded.repo, panic |-> TRUE]
              ELSE ApplyOperationsAgain(loaded.repo, rest \o flushed.operations)
         ELSE ApplyOperationsAgain(Defer(repo, operation), rest)

\* RepoSnapshot::apply_operations, in the build without test support: a failed
\* load_revision of the new head is logged and the loop goes on
RECURSIVE ApplyOperations(_, _)
ApplyOperations(repo, operations) ==
    IF operations = <<>> THEN [repo |-> repo, panic |-> FALSE]
    ELSE
      LET operation == Head(operations)
          rest == Tail(operations)
      IN IF operation.id \in DOMAIN repo.operations
         THEN ApplyOperations(repo, rest)
         ELSE IF \A i \in DOMAIN operation.parent : operation.parent[i] \in DOMAIN repo.operations
         THEN With(ApplyToBranch(repo, operation),
                   LAMBDA branched :
                     IF ~branched.ok
                     THEN ApplyOperations(repo, rest)
                     ELSE With(FlushDeferredOperations(
                                   SaveOperation(branched.repo, operation), operation.id),
                               LAMBDA flushed :
                          With(LoadRevision(flushed.repo, branched.new_head),
                               LAMBDA loaded :
                                 IF loaded.panic
                                 THEN [repo |-> loaded.repo, panic |-> TRUE]
                                 ELSE ApplyOperations(loaded.repo,
                                                      rest \o flushed.operations))))
         ELSE ApplyOperations(Defer(repo, operation), rest)

\* RepoSnapshot::operations_since
OperationsSince(repo, version) ==
    LET PerReplica(replica_id) ==
            LET end_op_count == repo.max_operation_ids[replica_id]
                InRange(id) ==
                    /\ id.replica_id = replica_id
                    /\ id.operation_count <= end_op_count
                    /\ IF replica_id \in DOMAIN version
                       THEN id.operation_count > version[replica_id]
                       ELSE id.operation_count >= 0
                ids == SortIds(SortByCount({id \in DOMAIN repo.operations : InRange(id)}))
            IN [i \in DOMAIN ids |-> repo.operations[ids[i]]]
        RECURSIVE Go(_)
        Go(replicas) ==
            IF replicas = {} THEN <<>>
            ELSE LET least == CHOOSE r \in replicas : \A q \in replicas : r <= q
                 IN PerReplica(least) \o Go(replicas \ {least})
    IN Go(DOMAIN repo.max_operation_ids)

(***************************************************************************)
(* The replicas.  Every replica starts from RepoSnapshot::default(): the   *)
(* creator through Client::create_repo, a clone through Client::clone_repo.*)
(* sent is the set of operations handed to local_operation_created, from   *)
(* which the batches given to apply_operations are drawn.  checkouts tells  *)
(* for each client whether it has a Checkout of the repository and whether *)
(* the task spawned by Checkout::new is still to run sync; operations_rx   *)
(* is the channel that task drains; room_messages are the broadcasts on    *)
(* their way to each client.  published is the set of operations that have *)
(* been sent in a PublishOperations request.  repo_ids_by_name and          *)
(* next_replica_ids_by_repo_id are the maps of the Server, clone_responses  *)
(* the CloneRepoResponses it has returned.  kv is the KvStore of each       *)
(* client: the snapshot its saving task stored last.  observed is a         *)
(* RevisionId on which observe is called with ids of several replicas.      *)
(***************************************************************************)
VARIABLES repos, crashed, authored, sent, call, checkouts, operations_rx, room_messages,
          published, repo_ids_by_name, next_replica_ids_by_repo_id, clone_responses,
          kv, observed, load_branch_snapshots

vars == <<repos, crashed, authored, sent, call, checkouts, operations_rx, room_messages,
          published, repo_ids_by_name, next_replica_ids_by_repo_id, clone_responses,
          kv, observed, load_branch_snapshots>>

net == <<checkouts, operations_rx, room_messages>>

coordinator == <<repo_ids_by_name, next_replica_ids_by_repo_id, clone_responses>>

others == <<coordinator, kv, observed, load_branch_snapshots>>

NoCall ==
    [kind |-> "none", replica |-> "",
     branch_id |-> DefaultOperationId, document_id |-> DefaultOperationId,
     edits |-> <<>>, duplicate |-> FALSE, deferred |-> FALSE, replayed |-> FALSE,
     ok |-> TRUE, repo_id |-> 0, name |-> "", stale |-> FALSE, dropped |-> FALSE]

\* the record of the last call, kept for the statements about single calls
Called(c) == call' = c

Init ==
    /\ repos = [r \in Replicas |-> DefaultRepoSnapshot]
    /\ crashed = [r \in Replicas |-> FALSE]
    /\ authored = [r \in Replicas |-> 0]
    /\ sent = {}
    /\ call = NoCall
    /\ checkouts = [r \in Clients |-> "none"]
    /\ operations_rx = [r \in Clients |-> <<>>]
    /\ room_messages = [r \in Clients |-> <<>>]
    /\ published = {}
    /\ repo_ids_by_name = EmptyMap
    /\ next_replica_ids_by_repo_id = EmptyMap
    /\ clone_responses = <<>>
    /\ kv = [r \in Clients |-> NoSavedRepoSnapshot]
    /\ observed = EmptyRevisionId
    /\ load_branch_snapshots = [r \in Clients |-> <<>>]

AuthoredTotal ==
    LET RECURSIVE Go(_)
        Go(rs) == IF rs = {} THEN 0
                  ELSE LET r == CHOOSE x \in rs : TRUE IN authored[r] + Go(rs \ {r})
    IN Go(Replicas)

\* the bound on the operations the replicas author
MayAuthor(r) ==
    /\ AuthoredTotal < MaxOps
    /\ r = Clone => authored[r] < MaxCloneOps

\* Repo::update with an operation: save_operation, then local_operation_created,
\* which is Client::handle_local_operation: the operation is queued when the
\* repository has a checkout
RepoUpdate(r, repo, operation) ==
    /\ repos' = [repos EXCEPT ![r] = SaveOperation(repo, operation)]
    /\ sent' = sent \cup {operation}
    /\ authored' = [authored EXCEPT ![r] = @ + 1]
    /\ crashed' = crashed
    /\ operations_rx' = IF checkouts[r] # "none"
                        THEN [operations_rx EXCEPT ![r] = Append(@, operation)]
                        ELSE operations_rx
    /\ UNCHANGED <<checkouts, room_messages, published, others>>

\* a failed expect(): the thread panics and the replica takes no further step
Panic(r) ==
    /\ crashed' = [crashed EXCEPT ![r] = TRUE]
    /\ UNCHANGED <<repos, authored, sent, net, published, others>>

\* Repo::create_empty_branch
CreateEmptyBranch(r, name) ==
    /\ ~crashed[r]
    /\ \E created \in {RepoCreateEmptyBranch(repos[r], name)} :
          /\ RepoUpdate(r, created.repo, created.operation)
          /\ Called([NoCall EXCEPT !.kind = "create_empty_branch", !.replica = r,
                                    !.branch_id = created.branch_id])

\* Branch::update up to the call of the closure: the loaded head revision, the
\* ticked operation id and the snapshot with its last_operation_id ticked
BranchUpdateStart(repo, branch_id) ==
    LET head == repo.branches[branch_id].head
    IN With(LoadRevision(repo, head),
            LAMBDA loaded :
       With(Tick(loaded.repo.last_operation_id),
            LAMBDA operation_id :
              [ok |-> loaded.ok,
               head |-> head,
               revision |-> loaded.revision,
               operation_id |-> operation_id,
               repo |-> [loaded.repo EXCEPT !.last_operation_id = operation_id]]))

\* a faulty end of Branch::update that moves the head to an id that is not the
\* id of the operation
BranchUpdateFinishAhead(repo, branch_id, operation_id, revision) ==
    [repo EXCEPT !.branches[branch_id].head = RevisionIdFrom(Tick(operation_id)),
                 !.revisions = MapInsert(@, RevisionIdFrom(operation_id), revision)]

\* a faulty end of Branch::update that moves the head and does not store the
\* revision
BranchUpdateFinishUncached(repo, branch_id, operation_id, revision) ==
    [repo EXCEPT !.branches[branch_id].head = RevisionIdFrom(operation_id)]

\* Branch::update after the closure: the new head and its revision
BranchUpdateFinish(repo, branch_id, operation_id, revision) ==
    [repo EXCEPT !.branches[branch_id].head = RevisionIdFrom(operation_id),
                 !.revisions = MapInsert(@, RevisionIdFrom(operation_id), revision)]

\* Branch::create_document
CreateDocument(r, branch_id) ==
    /\ ~crashed[r]
    /\ branch_id \in DOMAIN repos[r].branches
    /\ \E start \in {BranchUpdateStart(repos[r], branch_id)} :
       LET operation == CreateDocumentOp(start.operation_id, branch_id, start.head)
       IN /\ IF start.ok
             THEN RepoUpdate(r, BranchUpdateFinish(start.repo, branch_id,
                                                   start.operation_id,
                                                   CreateDocumentApply(operation,
                                                                       start.revision)),
                             operation)
             ELSE Panic(r)
          /\ Called([NoCall EXCEPT !.kind = "create_document", !.replica = r,
                                    !.branch_id = branch_id,
                                    !.document_id = start.operation_id])

\* Branch::read: the head revision of a branch, as load_revision returns it
BranchRead(repo, branch_id) == LoadRevision(repo, repo.branches[branch_id].head)

\* Branch::documents
Documents(repo, branch_id) ==
    With(BranchRead(repo, branch_id),
         LAMBDA read : IF read.ok THEN read.revision.document_metadata ELSE {})

\* Document::edit
Edit(r, branch_id, document_id, edits) ==
    /\ ~crashed[r]
    /\ \E start \in {BranchUpdateStart(repos[r], branch_id)} :
          /\ start.ok
          /\ \E edited \in {DocumentEdit(start.revision, document_id,
                                          start.operation_id, edits)} :
                RepoUpdate(r, BranchUpdateFinish(start.repo, branch_id, start.operation_id,
                                                 edited.revision),
                           EditOp(start.operation_id, document_id, branch_id, start.head,
                                  edited.edits))
          /\ Called([NoCall EXCEPT !.kind = "edit", !.replica = r,
                                    !.branch_id = branch_id,
                                    !.document_id = document_id,
                                    !.edits = edits])

\* every operation of the batch has its id in the log
AllLogged(repo, batch) == \A i \in DOMAIN batch : batch[i].id \in DOMAIN repo.operations

\* the operation is held in deferred_operations and is not in the log
IsDeferred(repo, operation) ==
    /\ operation.id \notin DOMAIN repo.operations
    /\ \E i \in DOMAIN repo.deferred_operations :
          repo.deferred_operations[i].operation = operation

\* entry i of the deferred operations of before was applied by a call that was
\* not given the operation again
Replayed(before, after, batch, i) ==
    LET operation == before.deferred_operations[i].operation
    IN /\ operation.id \notin DOMAIN before.operations
       /\ operation.id \in DOMAIN after.operations
       /\ after.operations[operation.id] = operation
       /\ \A j \in DOMAIN batch : batch[j] # operation

\* the operation reaches the else arm of the branch lookup of apply_operations:
\* it is not in the log, its parents are, and its branch is not in branches
BranchMissing(repo, operation) ==
    /\ operation.type # "CreateBranch"
    /\ operation.id \notin DOMAIN repo.operations
    /\ \A i \in DOMAIN operation.parent : operation.parent[i] \in DOMAIN repo.operations
    /\ operation.branch_id \notin DOMAIN repo.branches

\* Client::handle_remote_operation and the apply_operations of a sync or of the
\* coordinator: a batch of sent operations reaches replica r
ApplyOperationsCall(r, batch) ==
    /\ ~crashed[r]
    /\ \E applied \in {ApplyOperations(repos[r], batch)} :
          /\ repos' = [repos EXCEPT ![r] = applied.repo]
          /\ crashed' = [crashed EXCEPT ![r] = applied.panic]
          /\ Called([NoCall EXCEPT !.kind = "apply_operations",
                                   !.duplicate = AllLogged(repos[r], batch),
                                   !.dropped = \E i \in DOMAIN batch :
                                                  BranchMissing(repos[r], batch[i]),
                                   !.deferred = \E i \in DOMAIN batch :
                                                   IsDeferred(applied.repo, batch[i]),
                                   !.replayed = \E i \in DOMAIN repos[r].deferred_operations :
                                                   Replayed(repos[r], applied.repo, batch, i)])
    /\ UNCHANGED <<authored, sent, net, published, others>>

\* the task spawned by Client::new: a snapshot sent by repo_snapshot_changed is
\* saved; a later snapshot overwrites an earlier one, so the step that saves the
\* current snapshot stands for the saves of the snapshots queued before it
Save(r) ==
    /\ ~crashed[r]
    /\ kv' = [kv EXCEPT ![r] = MapInsert(@, "repo", RepoSnapshotSave(repos[r]))]
    /\ Called([NoCall EXCEPT !.kind = "save", !.replica = r])
    /\ UNCHANGED <<repos, crashed, authored, sent, net, published, coordinator,
                   observed, load_branch_snapshots>>

\* Client::repo in a client started anew on the same KvStore: the snapshot that
\* was saved last is loaded; kv.load fails when nothing was stored
Load(r) ==
    /\ ~crashed[r]
    /\ "repo" \in DOMAIN kv[r]
    /\ repos' = [repos EXCEPT ![r] = RepoSnapshotLoad(kv[r]["repo"])]
    /\ Called([NoCall EXCEPT !.kind = "load", !.replica = r])
    /\ UNCHANGED <<crashed, authored, sent, net, published, others>>

\* a faulty lookup that finds a branch for every name
LoadBranchLookupFound(snapshot, name) == [ok |-> TRUE, branch_id |-> DefaultOperationId]

\* the lookup that opens Repo::load_branch: Err("branch not found") unless the
\* name is a key of branch_ids_by_name
LoadBranchLookup(snapshot, name) ==
    IF name \in DOMAIN snapshot.branch_ids_by_name
    THEN [ok |-> TRUE, branch_id |-> snapshot.branch_ids_by_name[name]]
    ELSE [ok |-> FALSE, branch_id |-> DefaultOperationId]

\* Repo::load_branch
LoadBranch(r, name) ==
    /\ ~crashed[r]
    /\ LET snapshot == repos[r]
           found == LoadBranchLookup(snapshot, name).ok
           RECURSIVE CatchUp(_)
           CatchUp(copy) ==
               LET operations == OperationsSince(repos[r], copy.max_operation_ids)
               IN IF operations = <<>> THEN copy
                  ELSE CatchUp(ApplyOperations(copy, operations).repo)
       IN /\ repos' = IF found THEN [repos EXCEPT ![r] = CatchUp(snapshot)] ELSE repos
          /\ Called([NoCall EXCEPT !.kind = "load_branch"])
    /\ UNCHANGED <<crashed, authored, sent, net, published, others>>

\* Branch::read, here through Document::text or Branch::documents
BranchReadCall(r, branch_id) ==
    /\ ~crashed[r]
    /\ branch_id \in DOMAIN repos[r].branches
    /\ \E read \in {BranchRead(repos[r], branch_id)} :
          /\ repos' = [repos EXCEPT ![r] = read.repo]
          /\ crashed' = [crashed EXCEPT ![r] = ~read.ok]
          /\ Called([NoCall EXCEPT !.kind = "read"])
    /\ UNCHANGED <<authored, sent, net, published, others>>

(***************************************************************************)
(* Inputs.                                                                 *)
(***************************************************************************)
\* the sequences of one to MaxBatch sent operations
Batches ==
    UNION {[1..n -> sent] : n \in 1..MaxBatch}

\* texts of the edits of the replicated specification
EditTexts == {<<>>, <<"x", "y">>}

\* one edit of a document of length len: a visible range and a text, not both empty
SingleEdits(len, texts) ==
    {<<[range |-> [start |-> a, end |-> b], text |-> t]>> :
        <<a, b, t>> \in {x \in (0..len) \X (0..len) \X texts :
                            x[1] <= x[2] /\ (x[1] < x[2] \/ x[3] # <<>>)}}

\* two edits in ascending order that do not overlap
DoubleEdits(len, texts) ==
    {e1 \o e2 : <<e1, e2>> \in {x \in SingleEdits(len, texts) \X SingleEdits(len, texts) :
                                   x[1][1].range.end <= x[2][1].range.start}}

\* the length of a document at the head of a branch
HeadLen(repo, branch_id, document_id) ==
    DocumentLen(BranchRead(repo, branch_id).revision, document_id)

\* two replicas author, and receive the sent operations in any order and batch
Next ==
    \/ \E r \in Clients, name \in BranchNames :
          MayAuthor(r) /\ CreateEmptyBranch(r, name)
    \/ \E r \in Clients : \E branch_id \in DOMAIN repos[r].branches :
          MayAuthor(r) /\ CreateDocument(r, branch_id)
    \/ \E r \in Clients : \E branch_id \in DOMAIN repos[r].branches :
          \E document_id \in Documents(repos[r], branch_id) :
             \E edits \in SingleEdits(HeadLen(repos[r], branch_id, document_id), EditTexts) :
                MayAuthor(r) /\ Edit(r, branch_id, document_id, edits)
    \/ \E r \in Clients : \E batch \in Batches : ApplyOperationsCall(r, batch)
    \/ \E r \in Clients, name \in BranchNames : LoadBranch(r, name)

Spec == Init /\ [][Next]_vars

(***************************************************************************)
(* The local edits: one replica creates documents and edits them, one or   *)
(* two ranges in a call.                                                   *)
(***************************************************************************)
\* texts of the local edits
LocalTexts == {<<>>, <<"a", "b", "c">>, <<"g", "h", "i">>}

\* the number of ranges edited by the Edit operations of a log
EditedRanges(repo) ==
    LET RECURSIVE Go(_)
        Go(ids) == IF ids = {} THEN 0
                   ELSE LET id == CHOOSE x \in ids : TRUE
                        IN Len(repo.operations[id].edits) + Go(ids \ {id})
    IN Go(DOMAIN repo.operations)

NextEdit ==
    \/ \E name \in BranchNames :
          DOMAIN repos[Creator].branches = {} /\ CreateEmptyBranch(Creator, name)
    \/ \E branch_id \in DOMAIN repos[Creator].branches :
          /\ Cardinality(Documents(repos[Creator], branch_id)) < MaxDocuments
          /\ CreateDocument(Creator, branch_id)
    \/ \E branch_id \in DOMAIN repos[Creator].branches :
          \E document_id \in Documents(repos[Creator], branch_id) :
             LET left == MaxEdits - EditedRanges(repos[Creator])
             IN \E len \in {HeadLen(repos[Creator], branch_id, document_id)} :
                \E edits \in (IF left >= 1 THEN SingleEdits(len, LocalTexts) ELSE {})
                                \cup (IF left >= 2 THEN DoubleEdits(len, LocalTexts) ELSE {}) :
                   Edit(Creator, branch_id, document_id, edits)

SpecEdit == Init /\ [][NextEdit]_vars

\* the creator authors, the clone receives the sent operations in any order
\* and batch, reads its branches, saves its snapshot from time to time and may
\* be started anew from what it saved
NextStore ==
    \/ \E name \in BranchNames :
          MayAuthor(Creator) /\ CreateEmptyBranch(Creator, name)
    \/ \E branch_id \in DOMAIN repos[Creator].branches :
          MayAuthor(Creator) /\ CreateDocument(Creator, branch_id)
    \/ \E branch_id \in DOMAIN repos[Creator].branches :
          \E document_id \in Documents(repos[Creator], branch_id) :
             \E edits \in SingleEdits(HeadLen(repos[Creator], branch_id, document_id),
                                       EditTexts) :
                MayAuthor(Creator) /\ Edit(Creator, branch_id, document_id, edits)
    \/ \E batch \in Batches : ApplyOperationsCall(Clone, batch)
    \/ \E branch_id \in DOMAIN repos[Clone].branches : BranchReadCall(Clone, branch_id)
    \/ Save(Clone)
    \/ Load(Clone)

SpecStore == Init /\ [][NextStore]_vars

(***************************************************************************)
(* The clients and the coordinator.  A request, its handler on the         *)
(* coordinator and the handling of the response are one step.              *)
(***************************************************************************)
\* a faulty handle_publish_repo that sets the counter of the repository before
\* it looks the name up
HandlePublishRepoCounterFirst(names, next_replica_ids, id, name) ==
    IF name \in DOMAIN names
    THEN [ok |-> FALSE,
          repo_ids_by_name |-> names,
          next_replica_ids_by_repo_id |-> MapInsert(next_replica_ids, id, 1)]
    ELSE [ok |-> TRUE,
          repo_ids_by_name |-> MapInsert(names, name, id),
          next_replica_ids_by_repo_id |-> MapInsert(next_replica_ids, id, 1)]

\* Server::handle_publish_repo on the maps of the server: Err("repo name taken")
\* when the name is bound, else the name is bound and the counter of the
\* repository is set to 1
HandlePublishRepo(names, next_replica_ids, id, name) ==
    IF name \in DOMAIN names
    THEN [ok |-> FALSE,
          repo_ids_by_name |-> names,
          next_replica_ids_by_repo_id |-> next_replica_ids]
    ELSE [ok |-> TRUE,
          repo_ids_by_name |-> MapInsert(names, name, id),
          next_replica_ids_by_repo_id |-> MapInsert(next_replica_ids, id, 1)]

\* Server::handle_clone_repo on the maps of the server: Err("repo not found")
\* when the name is not bound, else the counter of the repository is returned
\* and incremented
HandleCloneRepo(names, next_replica_ids, name) ==
    IF name \notin DOMAIN names
    THEN [ok |-> FALSE, repo_id |-> 0, replica_id |-> 0,
          next_replica_ids_by_repo_id |-> next_replica_ids]
    ELSE LET repo_id == names[name]
         IN [ok |-> TRUE,
             repo_id |-> repo_id,
             replica_id |-> next_replica_ids[repo_id],
             next_replica_ids_by_repo_id |->
                 [next_replica_ids EXCEPT ![repo_id] = @ + 1]]

\* the snapshots of the server after handle_publish_repo: a RepoSnapshot::default()
\* is inserted under the id of the request
PublishedSnapshots(response, id) ==
    IF response.ok /\ id = SharedRepoId
    THEN [repos EXCEPT ![Coordinator] = DefaultRepoSnapshot]
    ELSE repos

\* Client::publish_repo with Server::handle_publish_repo, up to Checkout::new
PublishRepo ==
    /\ ~crashed[Creator]
    /\ checkouts[Creator] = "none"
    /\ \E response \in {HandlePublishRepo(repo_ids_by_name, next_replica_ids_by_repo_id,
                                          SharedRepoId, "repo-1")} :
          /\ repo_ids_by_name' = response.repo_ids_by_name
          /\ next_replica_ids_by_repo_id' = response.next_replica_ids_by_repo_id
          /\ repos' = PublishedSnapshots(response, SharedRepoId)
          /\ checkouts' = IF response.ok
                          THEN [checkouts EXCEPT ![Creator] = "syncing"]
                          ELSE checkouts
          /\ Called([NoCall EXCEPT !.kind = "publish_repo", !.replica = Creator,
                                    !.ok = response.ok])
    /\ UNCHANGED <<crashed, authored, sent, operations_rx, room_messages, published,
                   clone_responses, kv, observed, load_branch_snapshots>>

\* Client::clone_repo with Server::handle_clone_repo, up to Checkout::new; the
\* replica_id of the response is not used
CloneRepo ==
    /\ ~crashed[Clone]
    /\ checkouts[Clone] = "none"
    /\ \E response \in {HandleCloneRepo(repo_ids_by_name, next_replica_ids_by_repo_id,
                                        "repo-1")} :
          /\ response.ok
          /\ next_replica_ids_by_repo_id' = response.next_replica_ids_by_repo_id
          /\ clone_responses' = Append(clone_responses,
                                       [repo_id |-> response.repo_id,
                                        replica_id |-> response.replica_id])
    /\ checkouts' = [checkouts EXCEPT ![Clone] = "syncing"]
    /\ repos' = [repos EXCEPT ![Clone] = DefaultRepoSnapshot]
    /\ Called([NoCall EXCEPT !.kind = "clone_repo", !.replica = Clone])
    /\ UNCHANGED <<crashed, authored, sent, operations_rx, room_messages, published,
                   repo_ids_by_name, kv, observed, load_branch_snapshots>>

\* ClientRoom::broadcast of operations by client r: one message for each
\* operation to every other client connected to the room
Broadcast(r, operations) ==
    [q \in Clients |->
        IF q # r /\ checkouts[q] # "none"
        THEN room_messages[q] \o operations
        ELSE room_messages[q]]

\* Server::handle_publish_operations for each chunk of the operations
RECURSIVE PublishChunks(_, _)
PublishChunks(server, operations) ==
    IF operations = <<>> THEN [repo |-> server, panic |-> FALSE]
    ELSE LET n == Min2(CHUNK_SIZE, Len(operations))
         IN With(ApplyOperations(server, SubSeq(operations, 1, n)),
                 LAMBDA applied :
                   IF applied.panic THEN applied
                   ELSE PublishChunks(applied.repo,
                                      SubSeq(operations, n + 1, Len(operations))))

\* Checkout::sync with Server::handle_sync_repo and handle_publish_operations
Sync(r) ==
    /\ ~crashed[r]
    /\ ~crashed[Coordinator]
    /\ checkouts[r] = "syncing"
    /\ LET server == repos[Coordinator]
           response == [operations |-> OperationsSince(server, repos[r].max_operation_ids),
                        max_operation_ids |-> server.max_operation_ids]
       IN \E applied \in {ApplyOperations(repos[r], response.operations)} :
          IF applied.panic
          THEN /\ repos' = [repos EXCEPT ![r] = applied.repo]
               /\ crashed' = [crashed EXCEPT ![r] = TRUE]
               /\ UNCHANGED <<checkouts, room_messages, published>>
          ELSE \E operations \in {OperationsSince(applied.repo,
                                                   response.max_operation_ids)} :
               \E stored \in {PublishChunks(server, operations)} :
                  /\ repos' = [repos EXCEPT ![r] = applied.repo,
                                            ![Coordinator] = stored.repo]
                  /\ crashed' = [crashed EXCEPT ![Coordinator] = stored.panic]
                  /\ checkouts' = [checkouts EXCEPT ![r] = "ready"]
                  /\ room_messages' = Broadcast(r, operations)
                  /\ published' = published \cup Range(operations)
    /\ Called([NoCall EXCEPT !.kind = "sync", !.replica = r])
    /\ UNCHANGED <<authored, sent, operations_rx, others>>

\* the loop of the task spawned by Checkout::new: the operations ready in the
\* channel, at most CHUNK_SIZE, are published and then broadcast
PublishOperations(r) ==
    /\ ~crashed[r]
    /\ ~crashed[Coordinator]
    /\ checkouts[r] = "ready"
    /\ operations_rx[r] # <<>>
    /\ LET n == Min2(CHUNK_SIZE, Len(operations_rx[r]))
           operations == SubSeq(operations_rx[r], 1, n)
       IN \E applied \in {ApplyOperations(repos[Coordinator], operations)} :
          /\ repos' = [repos EXCEPT ![Coordinator] = applied.repo]
          /\ crashed' = [crashed EXCEPT ![Coordinator] = applied.panic]
          /\ operations_rx' = [operations_rx EXCEPT
                                  ![r] = SubSeq(@, n + 1, Len(@))]
          /\ room_messages' = Broadcast(r, operations)
          /\ published' = published \cup Range(operations)
    /\ Called([NoCall EXCEPT !.kind = "publish_operations", !.replica = r])
    /\ UNCHANGED <<authored, sent, checkouts, others>>

\* Client::handle_remote_operation for the next message of the room
HandleRemoteOperation(r) ==
    /\ ~crashed[r]
    /\ room_messages[r] # <<>>
    /\ \E applied \in {ApplyOperations(repos[r], <<Head(room_messages[r])>>)} :
          /\ repos' = [repos EXCEPT ![r] = applied.repo]
          /\ crashed' = [crashed EXCEPT ![r] = applied.panic]
    /\ room_messages' = [room_messages EXCEPT ![r] = Tail(@)]
    /\ Called([NoCall EXCEPT !.kind = "handle_remote_operation", !.replica = r])
    /\ UNCHANGED <<authored, sent, checkouts, operations_rx, published, others>>

\* a client has the repository: it created it, or it has cloned it
HasRepo(r) == r = Creator \/ checkouts[r] # "none"

\* the bound on the operations the connected clients author
MayAuthorNet(r) ==
    /\ AuthoredTotal < MaxOps
    /\ r = Clone => authored[r] < MaxNetCloneOps

NextNet ==
    \/ \E r \in Clients, name \in BranchNames :
          HasRepo(r) /\ MayAuthorNet(r) /\ CreateEmptyBranch(r, name)
    \/ \E r \in Clients : \E branch_id \in DOMAIN repos[r].branches :
          HasRepo(r) /\ MayAuthorNet(r) /\ CreateDocument(r, branch_id)
    \/ PublishRepo
    \/ CloneRepo
    \/ \E r \in Clients : Sync(r)
    \/ \E r \in Clients : PublishOperations(r)
    \/ \E r \in Clients : HandleRemoteOperation(r)

SpecNet == Init /\ [][NextNet]_vars

(***************************************************************************)
(* Dropped clients.  The task spawned by Checkout::new holds a clone of    *)
(* the checkout, and with it a sender of its own channel, and a weak       *)
(* reference to the client.  checkouts[r] is "dropped" when the client is  *)
(* gone and the task is not, and "terminated" when the task has left its   *)
(* loop.                                                                   *)
(***************************************************************************)
\* the client of r is there
Alive(r) == checkouts[r] \notin {"dropped", "terminated"}

\* the last Arc of the client is dropped: the weak references of the task,
\* of the message handler and of the callbacks of the database fail from now
\* on.  A task that has not synced yet skips the sync and enters the loop.
DropClient(r) ==
    /\ ~crashed[r]
    /\ checkouts[r] \in {"syncing", "ready"}
    /\ checkouts' = [checkouts EXCEPT ![r] = "dropped"]
    /\ Called([NoCall EXCEPT !.kind = "drop", !.replica = r])
    /\ UNCHANGED <<repos, crashed, authored, sent, operations_rx, room_messages,
                   published, others>>

\* the loop of the task after the drop: operations_rx.next() yields the
\* operations ready in the channel, client.upgrade() fails and the loop breaks.
\* With an empty channel next() stays pending: the sender of the task's own
\* checkout keeps the channel open.
TaskBreak(r) ==
    /\ checkouts[r] = "dropped"
    /\ operations_rx[r] # <<>>
    /\ operations_rx' = [operations_rx EXCEPT
                            ![r] = SubSeq(@, Min2(CHUNK_SIZE, Len(@)) + 1, Len(@))]
    /\ checkouts' = [checkouts EXCEPT ![r] = "terminated"]
    /\ Called([NoCall EXCEPT !.kind = "task_break", !.replica = r])
    /\ UNCHANGED <<repos, crashed, authored, sent, room_messages, published, others>>

\* the message handler of the room after the drop: client.upgrade() fails and
\* the message is ignored
IgnoreRemoteOperation(r) ==
    /\ ~Alive(r)
    /\ room_messages[r] # <<>>
    /\ room_messages' = [room_messages EXCEPT ![r] = Tail(@)]
    /\ Called([NoCall EXCEPT !.kind = "ignore_remote_operation", !.replica = r])
    /\ UNCHANGED <<repos, crashed, authored, sent, checkouts, operations_rx, published,
                   others>>

\* the bound on the operations authored by clients that may be dropped
MayAuthorDrop == AuthoredTotal < MaxDropOps

NextDrop ==
    \/ \E r \in Clients, name \in BranchNames :
          HasRepo(r) /\ Alive(r) /\ MayAuthorDrop /\ CreateEmptyBranch(r, name)
    \/ PublishRepo
    \/ CloneRepo
    \/ \E r \in Clients : Sync(r)
    \/ \E r \in Clients : PublishOperations(r)
    \/ \E r \in Clients : Alive(r) /\ HandleRemoteOperation(r)
    \/ \E r \in Clients : DropClient(r)
    \/ \E r \in Clients : TaskBreak(r)
    \/ \E r \in Clients : IgnoreRemoteOperation(r)

SpecDrop == Init /\ [][NextDrop]_vars

(***************************************************************************)
(* The deferred operations: the creator authors; the clone receives the    *)
(* sent operations in any order and batch, authors a branch of its own,    *)
(* loads branches by name, saves its snapshot and is started anew.         *)
(***************************************************************************)
NextDefer ==
    \/ \E r \in Clients, name \in BranchNames :
          MayAuthor(r) /\ CreateEmptyBranch(r, name)
    \/ \E branch_id \in DOMAIN repos[Creator].branches :
          MayAuthor(Creator) /\ CreateDocument(Creator, branch_id)
    \/ \E batch \in Batches : ApplyOperationsCall(Clone, batch)
    \/ \E name \in BranchNames : LoadBranch(Clone, name)
    \/ Save(Clone)
    \/ Load(Clone)

SpecDefer == Init /\ [][NextDefer]_vars

(***************************************************************************)
(* load_branch as the future it is: the call copies the snapshot, the      *)
(* lookup of the name awaits the KvStore while other calls run, and the    *)
(* rest (the catch-up loop and the replacement of the live snapshot) runs  *)
(* when the lookup has returned Ok.                                        *)
(***************************************************************************)
\* one pass of the catch-up loop of load_branch over the copy
LoadBranchCatchUpStep(copy, latest_snapshot) ==
    ApplyOperations(copy, OperationsSince(latest_snapshot, copy.max_operation_ids))

\* the catch-up loop of load_branch: whether it ends, whether apply_operations
\* panicked, and the copy; a pass that leaves the copy as it was while
\* operations_since is not empty is repeated for ever
RECURSIVE LoadBranchCatchUp(_, _)
LoadBranchCatchUp(copy, latest_snapshot) ==
    IF OperationsSince(latest_snapshot, copy.max_operation_ids) = <<>>
    THEN [done |-> TRUE, panic |-> FALSE, snapshot |-> copy]
    ELSE With(LoadBranchCatchUpStep(copy, latest_snapshot),
              LAMBDA applied :
                IF applied.panic THEN [done |-> FALSE, panic |-> TRUE, snapshot |-> copy]
                ELSE IF applied.repo = copy
                THEN [done |-> FALSE, panic |-> FALSE, snapshot |-> copy]
                ELSE LoadBranchCatchUp(applied.repo, latest_snapshot))

\* Repo::load_branch up to the await of the lookup: the snapshot is copied
LoadBranchStart(r, name) ==
    /\ ~crashed[r]
    /\ load_branch_snapshots[r] = <<>>
    /\ load_branch_snapshots' =
           [load_branch_snapshots EXCEPT ![r] = <<[snapshot |-> repos[r], name |-> name]>>]
    /\ Called([NoCall EXCEPT !.kind = "load_branch_start", !.replica = r, !.name = name])
    /\ UNCHANGED <<repos, crashed, authored, sent, net, published, coordinator, kv, observed>>

\* Repo::load_branch from the return of the lookup: Err("branch not found"),
\* or the catch-up loop and the replacement of the live snapshot by the copy
LoadBranchFinish(r) ==
    /\ ~crashed[r]
    /\ load_branch_snapshots[r] # <<>>
    /\ LET pending == Head(load_branch_snapshots[r])
           found == LoadBranchLookup(pending.snapshot, pending.name).ok
           caught == LoadBranchCatchUp(pending.snapshot, repos[r])
       IN /\ found => caught.done \/ caught.panic
          /\ repos' = IF found /\ caught.done
                       THEN [repos EXCEPT ![r] = caught.snapshot] ELSE repos
          /\ crashed' = [crashed EXCEPT ![r] = found /\ caught.panic]
          /\ Called([NoCall EXCEPT !.kind = "load_branch", !.replica = r, !.ok = found,
                                    !.name = pending.name,
                                    !.stale = pending.snapshot # repos[r]])
    /\ load_branch_snapshots' = [load_branch_snapshots EXCEPT ![r] = <<>>]
    /\ UNCHANGED <<authored, sent, net, published, coordinator, kv, observed>>

\* the bound on the operations authored around load_branch
MayAuthorLoad(r) ==
    /\ AuthoredTotal < MaxLoadOps
    /\ r = Clone => authored[r] < MaxLoadCloneOps

NextLoad ==
    \/ \E r \in Clients, name \in BranchNames :
          MayAuthorLoad(r) /\ CreateEmptyBranch(r, name)
    \/ \E r \in Clients : \E branch_id \in DOMAIN repos[r].branches :
          MayAuthorLoad(r) /\ CreateDocument(r, branch_id)
    \/ \E r \in Clients : \E operation \in sent : ApplyOperationsCall(r, <<operation>>)
    \/ \E r \in Clients, name \in BranchNames : LoadBranchStart(r, name)
    \/ \E r \in Clients : LoadBranchFinish(r)

SpecLoad == Init /\ [][NextLoad]_vars

(***************************************************************************)
(* A concurrent insertion and deletion: the creator writes "hello"; then   *)
(* each client, while it reads "hello", may delete a range of it or insert *)
(* "Z" into it, and may create a branch; the clients receive the sent      *)
(* operations in any order.                                                *)
(***************************************************************************)
Hello == <<"h", "e", "l", "l", "o">>

\* the edits that write "hello" into the empty document
HelloEdits == {<<[range |-> [start |-> 0, end |-> 0], text |-> Hello]>>}

\* the deletions of a range of "hello" and the insertions of "Z" into it
ConcurrentEdits ==
    {<<[range |-> [start |-> a, end |-> b], text |-> <<>>]>> :
        <<a, b>> \in {<<1, 4>>, <<2, 5>>}}
      \cup {<<[range |-> [start |-> at, end |-> at], text |-> <<"Z">>]>> : at \in {3}}

\* the bound on the operations of the concurrent edits
MayAuthorConcurrent == AuthoredTotal < MaxConcurrentOps

NextConcurrent ==
    \/ \E r \in Clients, name \in BranchNames :
          /\ MayAuthorConcurrent
          /\ Cardinality(DOMAIN repos[Creator].operations) \in {0} \cup (3..MaxConcurrentOps)
          /\ r = Clone => DOMAIN repos[Clone].operations # {}
          /\ CreateEmptyBranch(r, name)
    \/ \E branch_id \in DOMAIN repos[Creator].branches :
          /\ MayAuthorConcurrent
          /\ Cardinality(DOMAIN repos[Creator].operations) = 1
          /\ CreateDocument(Creator, branch_id)
    \/ \E branch_id \in DOMAIN repos[Creator].branches :
          \E document_id \in Documents(repos[Creator], branch_id) :
             \E edits \in HelloEdits :
                /\ MayAuthorConcurrent
                /\ Cardinality(DOMAIN repos[Creator].operations) = 2
                /\ Edit(Creator, branch_id, document_id, edits)
    \/ \E r \in Clients : \E branch_id \in DOMAIN repos[r].branches :
          \E document_id \in Documents(repos[r], branch_id) :
             \E edits \in ConcurrentEdits :
                /\ MayAuthorConcurrent
                /\ DocumentText(BranchRead(repos[r], branch_id).revision, document_id) = Hello
                /\ Edit(r, branch_id, document_id, edits)
    \/ \E r \in Clients : \E operation \in sent : ApplyOperationsCall(r, <<operation>>)

SpecConcurrent == Init /\ [][NextConcurrent]_vars

(***************************************************************************)
(* The merge of concurrent heads: two replicas create branches and         *)
(* documents and receive the sent operations one at a time in any order.   *)
(***************************************************************************)
\* the bound on the operations the merging replicas author
MayAuthorMerge(r) ==
    /\ AuthoredTotal < MaxMergeOps
    /\ r = Clone => authored[r] < MaxMergeCloneOps

NextMerge ==
    \/ \E r \in Clients, name \in BranchNames :
          MayAuthorMerge(r) /\ CreateEmptyBranch(r, name)
    \/ \E r \in Clients : \E branch_id \in DOMAIN repos[r].branches :
          MayAuthorMerge(r) /\ CreateDocument(r, branch_id)
    \/ \E r \in Clients : \E operation \in sent : ApplyOperationsCall(r, <<operation>>)

SpecMerge == Init /\ [][NextMerge]_vars

(***************************************************************************)
(* The delivery orders: the creator creates branches, both clients create  *)
(* documents on the branch created first, and each receives the sent       *)
(* operations one at a time in any order.                                  *)
(***************************************************************************)
\* the branch of the documents: the id of the creator's first operation
HeadBranch == Tick(DefaultOperationId)

\* the bound on the operations authored for the delivery orders
MayAuthorHeads(r) ==
    /\ AuthoredTotal < MaxHeadOps
    /\ r = Clone => authored[r] < MaxHeadCloneOps

NextHeads ==
    \/ \E name \in BranchNames :
          /\ MayAuthorHeads(Creator)
          /\ Cardinality(DOMAIN repos[Creator].branches) < MaxHeadBranches
          /\ CreateEmptyBranch(Creator, name)
    \/ \E r \in Clients : \E branch_id \in DOMAIN repos[r].branches \cap {HeadBranch} :
          MayAuthorHeads(r) /\ CreateDocument(r, branch_id)
    \/ \E r \in Clients : \E operation \in sent : ApplyOperationsCall(r, <<operation>>)

SpecHeads == Init /\ [][NextHeads]_vars

(***************************************************************************)
(* The order of operation ids: a revision id observes ids of two replicas. *)
(***************************************************************************)
\* RevisionId::observe of an id that the revision id does not hold, with a
\* parent that is empty or the revision id itself
Observe(operation_id, parent) ==
    /\ observed' = RevisionIdObserve(observed, operation_id, parent)
    /\ Called([NoCall EXCEPT !.kind = "observe", !.branch_id = operation_id])
    /\ UNCHANGED <<repos, crashed, authored, sent, net, published, coordinator, kv,
                   load_branch_snapshots>>

NextOrder ==
    \E operation_id \in ObservedIds \ Range(observed) :
       \E parent \in {EmptyRevisionId, observed} : Observe(operation_id, parent)

SpecOrder == Init /\ [][NextOrder]_vars

(***************************************************************************)
(* The coordinator alone: the requests of any client reach its handlers    *)
(* in any order.  repos[Coordinator] is the snapshot the coordinator keeps *)
(* under SharedRepoId.                                                     *)
(***************************************************************************)
\* Server::handle_publish_repo for a request with any id and name
PublishRepoRequest(id, name) ==
    /\ \E response \in {HandlePublishRepo(repo_ids_by_name, next_replica_ids_by_repo_id,
                                          id, name)} :
          /\ repo_ids_by_name' = response.repo_ids_by_name
          /\ next_replica_ids_by_repo_id' = response.next_replica_ids_by_repo_id
          /\ repos' = PublishedSnapshots(response, id)
          /\ Called([NoCall EXCEPT !.kind = "handle_publish_repo", !.ok = response.ok,
                                    !.repo_id = id, !.name = name])
    /\ UNCHANGED <<crashed, authored, sent, net, published, clone_responses, kv, observed,
                   load_branch_snapshots>>

\* Server::handle_clone_repo for a request with any name; the responses are
\* kept in the order of the requests
CloneRepoRequest(name) ==
    /\ Len(clone_responses) < MaxClones
    /\ \E response \in {HandleCloneRepo(repo_ids_by_name, next_replica_ids_by_repo_id,
                                        name)} :
          /\ next_replica_ids_by_repo_id' = response.next_replica_ids_by_repo_id
          /\ clone_responses' = IF response.ok
                                THEN Append(clone_responses,
                                            [repo_id |-> response.repo_id,
                                             replica_id |-> response.replica_id])
                                ELSE clone_responses
          /\ Called([NoCall EXCEPT !.kind = "handle_clone_repo", !.ok = response.ok,
                                    !.repo_id = response.repo_id, !.name = name])
    /\ UNCHANGED <<repos, crashed, authored, sent, net, published, repo_ids_by_name,
                   kv, observed, load_branch_snapshots>>

\* Server::handle_publish_operations for SharedRepoId: Err("repo not found")
\* when the coordinator has no snapshot of the repository
PublishOperationsRequest(batch) ==
    /\ SharedRepoId \in DOMAIN next_replica_ids_by_repo_id
    /\ ApplyOperationsCall(Coordinator, batch)

\* the bound on the operations authored for the coordinator
MayAuthorServer == AuthoredTotal < MaxServerOps

NextServer ==
    \/ \E name \in BranchNames :
          MayAuthorServer /\ CreateEmptyBranch(Creator, name)
    \/ \E branch_id \in DOMAIN repos[Creator].branches :
          MayAuthorServer /\ CreateDocument(Creator, branch_id)
    \/ \E id \in RepoIds, name \in RepoNames : PublishRepoRequest(id, name)
    \/ \E name \in RepoNames : CloneRepoRequest(name)
    \/ \E batch \in Batches : PublishOperationsRequest(batch)

SpecServer == Init /\ [][NextServer]_vars

(***************************************************************************)
(* The coordinator and two authors: the clients exchange their operations  *)
(* and the PublishOperations requests reach the handler in any order.      *)
(***************************************************************************)
\* the bound on the operations published to the coordinator
MayAuthorPublished(r) ==
    /\ AuthoredTotal < MaxPublishedOps
    /\ r = Clone => authored[r] < MaxPublishedCloneOps

NextPublished ==
    \/ \E name \in BranchNames :
          MayAuthorPublished(Creator) /\ CreateEmptyBranch(Creator, name)
    \/ \E r \in Clients : \E branch_id \in DOMAIN repos[r].branches :
          MayAuthorPublished(r) /\ CreateDocument(r, branch_id)
    \/ \E r \in Clients : \E operation \in sent : ApplyOperationsCall(r, <<operation>>)
    \/ \E name \in RepoNames : PublishRepoRequest(SharedRepoId, name)
    \/ \E operation \in sent : PublishOperationsRequest(<<operation>>)

SpecPublished == Init /\ [][NextPublished]_vars

(***************************************************************************)
(* Properties.                                                             *)
(***************************************************************************)
\* the text of a document at the head of a branch
TextOf(repo, branch_id, document_id) ==
    DocumentText(BranchRead(repo, branch_id).revision, document_id)

\* the two snapshots show the same documents with the same text on a branch
SameDocuments(p, q, branch_id) ==
    LET x == BranchRead(p, branch_id)
        y == BranchRead(q, branch_id)
    IN /\ x.ok = y.ok
       /\ x.ok => /\ x.revision.document_metadata = y.revision.document_metadata
                   /\ \A d \in x.revision.document_metadata :
                         DocumentText(x.revision, d) = DocumentText(y.revision, d)

\* some logged operation is an Edit
HasEdit(repo) == \E id \in DOMAIN repo.operations : repo.operations[id].type = "Edit"

\* C1: two replicas whose logs hold the same operations have the same branches,
\* the same documents on every branch and the same text for every document
Convergence ==
    \A r1 \in Replicas, r2 \in Replicas :
        repos[r1].operations = repos[r2].operations
            => /\ DOMAIN repos[r1].branches = DOMAIN repos[r2].branches
               /\ \A b \in DOMAIN repos[r1].branches : SameDocuments(repos[r1], repos[r2], b)

\* two replicas hold the same log, with an edit in it, and show a non-empty text
ConvergenceWitness ==
    \E r1 \in Replicas, r2 \in Replicas :
        /\ r1 # r2
        /\ authored[r2] = 0
        /\ repos[r1].operations = repos[r2].operations
        /\ HasEdit(repos[r1])
        /\ \E b \in DOMAIN repos[r2].branches :
              \E d \in Documents(repos[r2], b) : TextOf(repos[r2], b, d) # <<>>

\* C3: two replicas whose logs hold the same operations, reached through
\* different deliveries, have the same head on every branch and materialise the
\* identical Revision for it
Commutativity ==
    \A r1 \in Replicas, r2 \in Replicas :
        repos[r1].operations = repos[r2].operations
            => /\ DOMAIN repos[r1].branches = DOMAIN repos[r2].branches
               /\ \A b \in DOMAIN repos[r1].branches :
                     /\ BranchRead(repos[r1], b).ok = BranchRead(repos[r2], b).ok
                     /\ BranchRead(repos[r1], b).revision = BranchRead(repos[r2], b).revision

\* two replicas hold the same log, with an edit in it, and their clocks show
\* that they applied its operations in different orders
CommutativityWitness ==
    \E r1 \in Replicas, r2 \in Replicas :
        /\ repos[r1].operations = repos[r2].operations
        /\ repos[r1].last_operation_id # repos[r2].last_operation_id
        /\ HasEdit(repos[r1])

\* C4: every id in parent() of a logged operation is a key of the log
CausalClosure ==
    \A r \in Replicas :
        \A id \in DOMAIN repos[r].operations :
            \A i \in DOMAIN repos[r].operations[id].parent :
                repos[r].operations[id].parent[i] \in DOMAIN repos[r].operations

\* a replica has applied an edit that another replica authored
CausalClosureWitness ==
    /\ call.kind = "apply_operations"
    /\ authored[Clone] = 0
    /\ HasEdit(repos[Clone])

\* C5: an apply_operations call whose operations all have their id in the log
\* leaves every snapshot as it was
Idempotence ==
    [][(call'.kind = "apply_operations" /\ call'.duplicate) => repos' = repos]_vars

\* a batch of already logged operations, one of them an edit, has been delivered
IdempotenceWitness ==
    /\ call.kind = "apply_operations"
    /\ call.duplicate
    /\ \E r \in Replicas : HasEdit(repos[r])

\* the ids of a revision id with everything reachable from them through parent()
RECURSIVE CausalHistory(_, _)
CausalHistory(repo, ids) ==
    LET known == {id \in ids : id \in DOMAIN repo.operations}
        more == ids \cup UNION {Range(repo.operations[id].parent) : id \in known}
    IN IF more = ids THEN ids ELSE CausalHistory(repo, more)

\* the state obtained from the empty revision by applying the CreateDocument and
\* Edit operations of the causal history of a revision id, each edit resolved
\* against the state of its own parent; nothing is read from the cache
RECURSIVE Canonical(_, _)
Canonical(repo, revision_id) ==
    LET history == SortByCount(CausalHistory(repo, Range(revision_id)))
        RECURSIVE Replay(_, _)
        Replay(revision, i) ==
            IF i > Len(history) THEN [ok |-> TRUE, revision |-> revision]
            ELSE
              LET op == repo.operations[history[i]]
                  parent == Canonical(repo, op.parent)
                  applied == EditApply(op, parent.revision, revision)
              IN IF op.type = "CreateBranch" THEN Replay(revision, i + 1)
                 ELSE IF op.type = "CreateDocument"
                 THEN Replay(CreateDocumentApply(op, revision), i + 1)
                 ELSE IF parent.ok /\ applied.ok THEN Replay(applied.revision, i + 1)
                 ELSE [ok |-> FALSE, revision |-> revision]
    IN Replay(DefaultRevision, 1)

\* the revision ids a snapshot gives occasion to load: the heads of its branches,
\* the parents of its operations and the single ids of its log
KnownRevisionIds(repo) ==
    {repo.branches[b].head : b \in DOMAIN repo.branches}
        \cup {repo.operations[id].parent : id \in DOMAIN repo.operations}
        \cup {RevisionIdFrom(id) : id \in DOMAIN repo.operations}

\* C8: for every revision id whose ids are all in the log, load_revision returns
\* the state obtained by applying exactly the operations of its causal history,
\* whatever the cache holds
HistoricalRevision ==
    \A r \in Replicas :
        \A revision_id \in KnownRevisionIds(repos[r]) :
            (\A i \in DOMAIN revision_id : revision_id[i] \in DOMAIN repos[r].operations)
                => /\ LoadRevision(repos[r], revision_id).ok
                   /\ LoadRevision(repos[r], revision_id).revision
                          = Canonical(repos[r], revision_id).revision

\* C9: once B has applied A.operations_since(B.max_operation_ids), every
\* operation of A's log is in B's log, B's version covers A's, and when the two
\* logs have become equal every document has the same text on both
SyncLaw ==
    \A A \in Replicas, B \in Replicas :
        LET synced == ApplyOperations(repos[B],
                                      OperationsSince(repos[A], repos[B].max_operation_ids)).repo
        IN /\ \A id \in DOMAIN repos[A].operations :
                 /\ id \in DOMAIN synced.operations
                 /\ synced.operations[id] = repos[A].operations[id]
           /\ \A replica_id \in DOMAIN repos[A].max_operation_ids :
                 /\ replica_id \in DOMAIN synced.max_operation_ids
                 /\ synced.max_operation_ids[replica_id] >= repos[A].max_operation_ids[replica_id]
           /\ synced.operations = repos[A].operations
                 => \A b \in DOMAIN repos[A].branches :
                       b \in DOMAIN synced.branches /\ SameDocuments(repos[A], synced, b)

\* C10: a branch that exists on a replica is found by load_branch under its
\* name, and the branch found has that name
BranchLookupByName ==
    \A r \in Replicas :
        \A b \in DOMAIN repos[r].branches :
            LET found == LoadBranchLookup(repos[r], repos[r].branches[b].name)
            IN /\ found.ok
               /\ found.branch_id \in DOMAIN repos[r].branches
               /\ repos[r].branches[found.branch_id].name = repos[r].branches[b].name

\* a text with every range of the edits replaced by the text of its edit; the
\* ranges are ascending and do not overlap, so the last is replaced first
RECURSIVE ReplaceRanges(_, _)
ReplaceRanges(text, edits) ==
    IF edits = <<>> THEN text
    ELSE LET edit == edits[Len(edits)]
         IN ReplaceRanges(SubSeq(text, 1, edit.range.start)
                              \o edit.text
                              \o SubSeq(text, edit.range.end + 1, Len(text)),
                          SubSeq(edits, 1, Len(edits) - 1))

\* C7: after Document::edit with ascending ranges that do not overlap and lie
\* inside the document, text() is the previous text with every range replaced by
\* the text of its edit
LocalEditResult ==
    [][call'.kind = "edit"
          => TextOf(repos'[call'.replica], call'.branch_id, call'.document_id)
                 = ReplaceRanges(TextOf(repos[call'.replica], call'.branch_id,
                                        call'.document_id),
                                 call'.edits)]_vars

\* "abc" edited with (1..2, "ghi") reads "aghic", the replaced "b" being hidden
LocalEditResultWitness ==
    /\ call.kind = "edit"
    /\ call.edits = <<[range |-> [start |-> 1, end |-> 2], text |-> <<"g", "h", "i">>]>>
    /\ TextOf(repos[call.replica], call.branch_id, call.document_id)
           = <<"a", "g", "h", "i", "c">>
    /\ BranchRead(repos[call.replica], call.branch_id).revision.hidden_text = <<"b">>

\* no task of a checkout has anything left to do: every sync is done, every
\* channel is drained and every broadcast has been handled
Quiescent ==
    \A r \in Clients :
        /\ checkouts[r] # "syncing"
        /\ operations_rx[r] = <<>>
        /\ room_messages[r] = <<>>

\* C2: once the system is quiescent, a client that has published or cloned the
\* repository has the same branch ids as the coordinator
SameBranchesAfterQuiescence ==
    Quiescent
        => \A r \in Clients :
              (checkouts[r] # "none" /\ ~crashed[r] /\ ~crashed[Coordinator])
                  => DOMAIN repos[r].branches = DOMAIN repos[Coordinator].branches

\* C6: an operation is held in deferred_operations exactly while a parent is
\* missing: what is held is not in the log and is held under an id of its
\* parent() that is not in the log, so that an operation whose last missing
\* parent has been applied is no longer waiting; and a replica that has replayed
\* deferred operations shows the text of any replica with the same log
DeferralAndReplay ==
    /\ \A r \in Replicas :
          \A i \in DOMAIN repos[r].deferred_operations :
             LET deferred == repos[r].deferred_operations[i]
             IN /\ deferred.operation.id \notin DOMAIN repos[r].operations
                /\ deferred.parent \in Range(deferred.operation.parent)
                /\ deferred.parent \notin DOMAIN repos[r].operations
    /\ (call.kind = "apply_operations" /\ call.replayed)
          => \A r1 \in Replicas, r2 \in Replicas :
                repos[r1].operations = repos[r2].operations
                    => \A b \in DOMAIN repos[r1].branches :
                          b \in DOMAIN repos[r2].branches
                              /\ SameDocuments(repos[r1], repos[r2], b)

\* an operation was deferred and has been applied by a later call that was not
\* given it again
DeferralAndReplayWitness ==
    /\ call.kind = "apply_operations"
    /\ call.replayed
    /\ \E r1 \in Replicas, r2 \in Replicas :
          /\ r1 # r2
          /\ repos[r1].operations = repos[r2].operations
          /\ HasEdit(repos[r1])

\* C15: on every replica max_operation_ids has an entry for exactly the replicas
\* that have an operation in the log, and the entry is the largest count of
\* those operations
MaxOperationIds ==
    \A r \in Replicas :
        LET repo == repos[r]
            ids == DOMAIN repo.operations
            authors == {id.replica_id : id \in ids}
        IN /\ DOMAIN repo.max_operation_ids = authors
           /\ \A a \in authors :
                 /\ \E id \in ids : /\ id.replica_id = a
                                     /\ id.operation_count = repo.max_operation_ids[a]
                 /\ \A id \in ids : id.replica_id = a
                                        => id.operation_count <= repo.max_operation_ids[a]

\* apply_operations has returned on a replica whose log holds several operations
MaxOperationIdsWitness ==
    /\ call.kind = "apply_operations"
    /\ \E r \in Clients :
          /\ Cardinality(DOMAIN repos[r].operations) >= 2
          /\ 0 \in DOMAIN repos[r].max_operation_ids
          /\ repos[r].max_operation_ids[0] >= 3

\* C16: every id of the head of every branch is a key of the log
HeadsInLog ==
    \A r \in Replicas :
        \A b \in DOMAIN repos[r].branches :
            Range(repos[r].branches[b].head) \subseteq DOMAIN repos[r].operations

\* a head that apply_operations has merged from two concurrent operations
HeadsInLogWitness ==
    /\ call.kind = "apply_operations"
    /\ \E r \in Clients : \E b \in DOMAIN repos[r].branches :
          Len(repos[r].branches[b].head) >= 2

\* C17: revisions has an entry for the head of every branch
HeadRevisionCached ==
    \A r \in Replicas :
        \A b \in DOMAIN repos[r].branches :
            repos[r].branches[b].head \in DOMAIN repos[r].revisions

\* C18: the count of an authored operation exceeds the count of every id of
\* its parent
CausallyConsistentIds ==
    \A op \in sent :
        \A i \in DOMAIN op.parent :
            op.parent[i].operation_count < op.id.operation_count

\* the clone has authored its only operation, a create_document on a branch it
\* received: every id of the parent was authored elsewhere
CausallyConsistentIdsWitness ==
    /\ call.kind = "create_document"
    /\ call.replica = Clone
    /\ authored[Clone] = 1
    /\ \E op \in sent :
          /\ op.id = call.document_id
          /\ op.parent # <<>>
          /\ op.id \in DOMAIN repos[Clone].operations

\* C11: once the repository is published, no replica has panicked and the
\* tasks of the checkouts have nothing left to do (every sync has run, every
\* channel and room is drained), every operation authored on the repository
\* has been sent in a PublishOperations request and broadcast
PublishedAtQuiescence ==
    (/\ checkouts[Creator] # "none"
     /\ \A r \in Replicas : ~crashed[r]
     /\ Quiescent)
        => sent \subseteq published

ReplicaIdsMonotone ==
    /\ \A i \in DOMAIN clone_responses : clone_responses[i].replica_id >= 1
    /\ \A i, j \in DOMAIN clone_responses :
          (i < j /\ clone_responses[i].repo_id = clone_responses[j].repo_id)
             => clone_responses[i].replica_id < clone_responses[j].replica_id

\* C14: a PublishRepo request with a name that is already bound fails and
\* leaves the names, the snapshot and the replica-id counters of the
\* coordinator as they were
NameTakenUnchanged ==
    [][(call'.kind = "handle_publish_repo" /\ call'.name \in DOMAIN repo_ids_by_name)
          => /\ ~call'.ok
             /\ repo_ids_by_name' = repo_ids_by_name
             /\ next_replica_ids_by_repo_id' = next_replica_ids_by_repo_id
             /\ repos'[Coordinator] = repos[Coordinator]]_vars

\* a PublishRepo request for SharedRepoId has failed on a coordinator that has
\* handed out a replica id for the repository and holds operations of it
NameTakenUnchangedWitness ==
    /\ call.kind = "handle_publish_repo"
    /\ ~call.ok
    /\ call.repo_id = SharedRepoId
    /\ call.name \in DOMAIN repo_ids_by_name
    /\ SharedRepoId \in DOMAIN next_replica_ids_by_repo_id
    /\ next_replica_ids_by_repo_id[SharedRepoId] > 1
    /\ DOMAIN repos[Coordinator].operations # {}
\* the ids reachable from id through parent() in the log of a snapshot, id excluded
Ancestors(repo, id) ==
    IF id \in DOMAIN repo.operations
    THEN CausalHistory(repo, Range(repo.operations[id].parent))
    ELSE {}

\* C19: when nothing is deferred, no head of a branch holds two ids one of
\* which is reachable from the other through parent()
HeadsAreAntichains ==
    \A r \in Clients :
        (~crashed[r] /\ DOMAIN repos[r].deferred_operations = {})
           => \A branch_id \in DOMAIN repos[r].branches :
                 \A x, y \in Range(repos[r].branches[branch_id].head) :
                     x \notin Ancestors(repos[r], y)
\* C20: the order that sorts a revision id compares the operation counts
\* first and the replica ids on a tie, so that in a sorted revision id every
\* id is_causally_after the ids before it
OrderedByCountFirst ==
    \A i, j \in DOMAIN observed :
        i < j => IsCausallyAfter(observed[j], observed[i])
\* the revision that the last call, a Document::edit, has left at the head of
\* its branch
EditedRevision ==
    repos[call.replica].revisions[repos[call.replica].branches[call.branch_id].head]

\* the text of an insertion: the new texts of the edits of the Edit operation
\* in their order; the sentinel of a document has no text
InsertedText(repo, insertion_id) ==
    LET op == repo.operations[insertion_id]
        RECURSIVE Go(_)
        Go(i) == IF i > Len(op.edits) THEN <<>> ELSE op.edits[i].text \o Go(i + 1)
    IN IF op.type = "Edit" THEN Go(1) ELSE <<>>

\* the text of the visible, or of the hidden, fragments in fragment order
RECURSIVE FragmentsText(_, _, _)
FragmentsText(repo, fragments, visible) ==
    IF fragments = <<>> THEN <<>>
    ELSE LET f == Head(fragments)
         IN (IF Visible(f) = visible
             THEN SubSeq(InsertedText(repo, f.insertion_id),
                         f.insertion_subrange.start + 1, f.insertion_subrange.end)
             ELSE <<>>)
            \o FragmentsText(repo, Tail(fragments), visible)

\* C21: after Document::edit the visible rope is as long as the visible
\* fragments and the hidden rope as long as the hidden fragments, and each
\* rope is the text of its fragments in fragment order
RopeConsistency ==
    call.kind = "edit" =>
        With(EditedRevision,
             LAMBDA revision :
               LET fragments == revision.document_fragments
               IN /\ Len(revision.visible_text)
                        = SliceVisibleLen(fragments, 1, Len(fragments))
                  /\ Len(revision.hidden_text)
                        = SliceHiddenLen(fragments, 1, Len(fragments))
                  /\ revision.visible_text
                        = FragmentsText(repos[call.replica], fragments, TRUE)
                  /\ revision.hidden_text
                        = FragmentsText(repos[call.replica], fragments, FALSE))

\* an edit has left both ropes non-empty and a fragment that starts inside its
\* insertion
RopeConsistencyWitness ==
    /\ call.kind = "edit"
    /\ EditedRevision.visible_text # <<>>
    /\ EditedRevision.hidden_text # <<>>
    /\ \E i \in DOMAIN EditedRevision.document_fragments :
          EditedRevision.document_fragments[i].insertion_subrange.start > 0

\* C22: after Document::edit every fragment has exactly one entry of
\* insertion_fragments under (insertion_id, insertion_subrange.start), and the
\* entry holds the location of the fragment
InsertionIndex ==
    call.kind = "edit" =>
        With(EditedRevision,
             LAMBDA revision :
               \A i \in DOMAIN revision.document_fragments :
                  LET f == revision.document_fragments[i]
                      entries == {j \in DOMAIN revision.insertion_fragments :
                                     InsertionKeyEq(revision.insertion_fragments[j],
                                                    InsertionFragmentNew(f))}
                  IN /\ Cardinality(entries) = 1
                     /\ \A j \in entries :
                           revision.insertion_fragments[j].fragment_location = f.location)

\* an edit has split an insertion in three: a visible fragment, a hidden
\* fragment and a visible fragment of one insertion follow each other
InsertionIndexWitness ==
    /\ call.kind = "edit"
    /\ \E i \in DOMAIN EditedRevision.document_fragments :
          LET fs == EditedRevision.document_fragments
          IN /\ i + 2 <= Len(fs)
             /\ fs[i].insertion_id = fs[i + 1].insertion_id
             /\ fs[i].insertion_id = fs[i + 2].insertion_id
             /\ Visible(fs[i]) /\ ~Visible(fs[i + 1]) /\ Visible(fs[i + 2])

\* C23: after Document::edit the fragments are sorted by document id and,
\* inside a document, by strictly increasing location
FragmentOrder ==
    call.kind = "edit" =>
        With(EditedRevision.document_fragments,
             LAMBDA fs :
               \A i, j \in DOMAIN fs :
                  i < j => \/ OpIdLess(fs[i].document_id, fs[j].document_id)
                           \/ /\ fs[i].document_id = fs[j].document_id
                              /\ DenseLess(fs[i].location, fs[j].location))

\* an edit of the first of two documents has put an insertion between two
\* fragments of an older insertion
FragmentOrderWitness ==
    /\ call.kind = "edit"
    /\ \E i \in DOMAIN EditedRevision.document_fragments :
          LET fs == EditedRevision.document_fragments
          IN /\ i + 2 <= Len(fs)
             /\ fs[i].insertion_id = fs[i + 2].insertion_id
             /\ fs[i + 1].insertion_id # fs[i].insertion_id
             /\ \E k \in DOMAIN fs : OpIdLess(fs[i].document_id, fs[k].document_id)
\* the operations held in deferred_operations
DeferredOperations(repo) ==
    {repo.deferred_operations[i].operation : i \in DOMAIN repo.deferred_operations}

\* some id of parent() of the operation is not a key of the log
ParentMissing(repo, operation) ==
    \E i \in DOMAIN operation.parent : operation.parent[i] \notin DOMAIN repo.operations

Deletions(repo) ==
    {repo.operations[id] : id \in {x \in DOMAIN repo.operations :
        repo.operations[x].type = "Edit" /\ repo.operations[x].edits[1].text = <<>>}}
Insertions(repo) ==
    {repo.operations[id] : id \in {x \in DOMAIN repo.operations :
        repo.operations[x].type = "Edit" /\ repo.operations[x].edits[1].text = <<"Z">>}}

\* the offsets of "hello" that the range of an edit spans
Spanned(operation) ==
    {i \in 0..(Len(Hello) - 1) :
        /\ operation.edits[1].range.start_offset_in_insertion <= i
        /\ i < operation.edits[1].range.end_offset_in_insertion}

\* "hello" without the characters that a deletion of the log spans and with
\* one "Z" for each insertion of the log at the offset of the insertion
RECURSIVE HelloAfter(_, _)
HelloAfter(repo, i) ==
    IF i >= Len(Hello) THEN <<>>
    ELSE LET inserted == {op \in Insertions(repo) :
                             op.edits[1].range.start_offset_in_insertion = i}
         IN [k \in 1..Cardinality(inserted) |-> "Z"]
              \o (IF \E op \in Deletions(repo) : i \in Spanned(op)
                  THEN <<>> ELSE <<Hello[i + 1]>>)
              \o HelloAfter(repo, i + 1)

\* the log holds a deletion of a range of "hello" and an insertion inside that
\* range, both made on "hello"
InsertedInsideDeleted(repo) ==
    \E deletion \in Deletions(repo), insertion \in Insertions(repo) :
       /\ deletion.parent = insertion.parent
       /\ insertion.edits[1].range.start_offset_in_insertion - 1 \in Spanned(deletion)
       /\ insertion.edits[1].range.start_offset_in_insertion \in Spanned(deletion)

DroppedTaskTerminates ==
    \A r \in Clients : checkouts[r] = "dropped" => operations_rx[r] # <<>>
\* C27: no two different operations authored in the repository carry the same
\* OperationId, whether one client authored both or the creator one and a
\* clone the other
UniqueOperationIds ==
    \A first, second \in sent : first.id = second.id => first = second
\* C28: two replicas that have processed the same set of operations, with
\* nothing deferred, hold the same head on every branch, whatever the order
\* in which the operations reached them
HeadOrderIndependent ==
    \A r1 \in Replicas, r2 \in Replicas :
        ( /\ ~crashed[r1] /\ ~crashed[r2]
          /\ repos[r1].operations = repos[r2].operations
          /\ DOMAIN repos[r1].deferred_operations = {}
          /\ DOMAIN repos[r2].deferred_operations = {} )
           => \A branch_id \in DOMAIN repos[r1].branches \cap DOMAIN repos[r2].branches :
                 repos[r1].branches[branch_id].head = repos[r2].branches[branch_id].head

\* the load_revision calls of a step: when a replica with nothing deferred
\* applies one operation of another replica to a branch, apply_operations
\* calls load_revision on the new head, with the operation in the log and the
\* cache as it was before the step
HeadLoads ==
    {[snapshot |-> [repos[r]' EXCEPT !.revisions = repos[r].revisions],
      target |-> repos[r]'.branches[repos[r]'.operations[id].branch_id].head] :
        <<r, id>> \in {<<q, new>> \in Replicas \X UNION {DOMAIN repos[y]'.operations : y \in Replicas} :
                          /\ call'.kind = "apply_operations"
                          /\ DOMAIN repos[q].deferred_operations = {}
                          /\ DOMAIN repos[q]'.operations = DOMAIN repos[q].operations \cup {new}
                          /\ new \notin DOMAIN repos[q].operations
                          /\ repos[q]'.operations[new].type # "CreateBranch"}}

\* the backward searches of a step: the searches of those load_revision calls
\* whose target is not cached, each with its snapshot and its target
HeadSearches ==
    {[snapshot |-> load.snapshot, target |-> load.target,
      found |-> SearchAncestors(load.snapshot, load.target,
                                SearchesFor(load.snapshot, DefaultOperationId, load.target),
                                EmptyMap, Range(load.target))] :
        load \in {l \in HeadLoads : l.target \notin DOMAIN l.snapshot.revisions}}

\* the operations of the target's causal history that the chosen ancestor's
\* causal history does not hold
MissingOperations(search) ==
    CausalHistory(search.snapshot, Range(search.target))
        \ CausalHistory(search.snapshot, Range(search.found.ancestor))

\* C29: whenever load_revision chooses a cached revision as the starting
\* ancestor, every operation of the target's causal history that is not in the
\* ancestor's causal history has an operation_count above the largest
\* operation_count of the ancestor's revision id, and no operation of the
\* ancestor's causal history has; stated for the steps after which no two
\* operations share an id
CountFilterExact ==
    [][UniqueOperationIds'
          => \A search \in HeadSearches :
                search.found.cached
                   => /\ \A id \in MissingOperations(search) :
                             id.operation_count > MaxCount(search.found.ancestor)
                      /\ \A id \in CausalHistory(search.snapshot,
                                                  Range(search.found.ancestor)) :
                             id.operation_count <= MaxCount(search.found.ancestor)]_vars

\* C30: when the backward search of load_revision stops at a cached common
\* ancestor, the collected set holds every operation of the target's causal
\* history that is not in the ancestor's causal history; stated for the steps
\* after which no two operations share an id
SearchCollectsAll ==
    [][UniqueOperationIds'
          => \A search \in HeadSearches :
                search.found.cached
                   => MissingOperations(search) \subseteq search.found.operations]_vars

\* the entries of deferred_operations
DeferredEntries(repo) ==
    {repo.deferred_operations[i] : i \in DOMAIN repo.deferred_operations}

\* C31: a step of apply_operations that defers an operation and applies none
\* inserts an entry for every id of parent() that is missing from the log and
\* none for an id of parent() that is in the log
DeferOnlyMissing ==
    [][\A r \in Replicas :
          ( /\ call'.kind = "apply_operations"
            /\ repos[r]'.operations = repos[r].operations )
             => \A entry \in DeferredEntries(repos[r]') \ DeferredEntries(repos[r]) :
                   /\ entry.parent \notin DOMAIN repos[r].operations
                   /\ \A i \in DOMAIN entry.operation.parent :
                         entry.operation.parent[i] \notin DOMAIN repos[r].operations
                            => [parent |-> entry.operation.parent[i],
                                operation |-> entry.operation]
                                   \in DeferredEntries(repos[r]')]_vars

\* every authored operation has an id of its own
DistinctAuthored == Cardinality(sent) = AuthoredTotal /\ UniqueOperationIds

\* C32: once apply_operations has returned, no entry of deferred_operations
\* holds an operation that is in the log or a parent id that is in the log;
\* stated for the states in which no two authored operations share an id
NoStaleDeferred ==
    DistinctAuthored
       => \A r \in Replicas :
             \A entry \in DeferredEntries(repos[r]) :
                /\ entry.operation.id \notin DOMAIN repos[r].operations
                /\ entry.parent \notin DOMAIN repos[r].operations

CatchUpTerminates ==
    \A r \in Clients :
        load_branch_snapshots[r] # <<>>
           => With(LoadBranchCatchUp(Head(load_branch_snapshots[r]).snapshot, repos[r]),
                   LAMBDA caught : caught.done \/ caught.panic)

\* C35: a CreateDocument or Edit that apply_operations reaches with its parents
\* in the log and its branch not in branches is dropped: the snapshot (log,
\* heads, revisions, max_operation_ids, last_operation_id, deferred_operations)
\* is as it was, and an operation after it in the batch is processed as if it
\* came alone
DroppedWithoutBranch ==
    \A r \in Clients :
       \A operation \in sent :
          BranchMissing(repos[r], operation)
             => /\ ApplyOperations(repos[r], <<operation>>) = [repo |-> repos[r], panic |-> FALSE]
                /\ \A next \in sent :
                      ApplyOperations(repos[r], <<operation, next>>)
                         = ApplyOperations(repos[r], <<next>>)

\* the last apply_operations dropped an operation whose branch was missing, and
\* that operation would be dropped again
DroppedWithoutBranchWitness ==
    /\ call.kind = "apply_operations"
    /\ call.dropped
    /\ \E r \in Clients : \E operation \in sent : BranchMissing(repos[r], operation)

\* the revision the closure of a local update leaves: the head revision of
\* before with the document created or the edits made under operation_id
ClosureRevision(before, c, operation_id) ==
    LET revision == BranchRead(before, c.branch_id).revision
    IN IF c.kind = "create_document"
       THEN CreateDocumentApply(CreateDocumentOp(operation_id, c.branch_id,
                                                 before.branches[c.branch_id].head),
                                revision)
       ELSE DocumentEdit(revision, c.document_id, operation_id, c.edits).revision

\* C36: a create_document or edit on a branch adds one operation to the log,
\* whose parent is the head of the branch before the call; after the call the
\* head of the branch is the RevisionId of that operation alone and revisions
\* holds under it the revision the closure edited
LocalUpdateHead ==
    [][\A r \in Clients :
          ( /\ call'.kind \in {"create_document", "edit"}
            /\ call'.replica = r
            /\ ~crashed'[r] )
             => LET before == repos[r]
                    after == repos[r]'
                    new == DOMAIN after.operations \ DOMAIN before.operations
                IN /\ Cardinality(new) = 1
                   /\ \A id \in new :
                         /\ after.operations[id].id = id
                         /\ after.operations[id].branch_id = call'.branch_id
                         /\ after.operations[id].parent = before.branches[call'.branch_id].head
                         /\ after.branches[call'.branch_id].head = RevisionIdFrom(id)
                         /\ RevisionIdFrom(id) \in DOMAIN after.revisions
                         /\ after.revisions[RevisionIdFrom(id)]
                               = ClosureRevision(before, call', id)]_vars

\* a document was created on a branch whose head held two operations: the
\* parent of the operation at the head has two ids
LocalUpdateHeadWitness ==
    /\ call.kind = "create_document"
    /\ \E r \in Clients :
          /\ call.replica = r
          /\ ~crashed[r]
          /\ call.branch_id \in DOMAIN repos[r].branches
          /\ LET head == repos[r].branches[call.branch_id].head
             IN /\ Len(head) = 1
                /\ head[1] \in DOMAIN repos[r].operations
                /\ Len(repos[r].operations[head[1]].parent) = 2

\* C37: the debug assertion of add_summary holds whenever the summaries of the
\* entries of deferred_operations are folded, also when two operations are
\* deferred on the same missing parent; stated for the states in which no two
\* authored operations share an id
SummaryAssertionHolds ==
    DistinctAuthored
       => \A r \in Replicas : DeferredSummaryFold(repos[r].deferred_operations)

\* the anchor lies in the fragment: the fragment is of the insertion and its
\* subrange holds the offset
HoldsAnchor(fragment, insertion_id, offset_in_insertion) ==
    /\ fragment.insertion_id = insertion_id
    /\ fragment.insertion_subrange.start <= offset_in_insertion
    /\ offset_in_insertion <= fragment.insertion_subrange.end

\* C38: for every local Document::edit, each AnchorRange of the emitted Edit
\* resolves against the revision of before the edit, and the first fragment
\* the resolution yields is the fragment that holds the start anchor, the one
\* the edit split or tombstoned at that offset
AnchorRoundTrip ==
    [][\A r \in Clients :
          (call'.kind = "edit" /\ call'.replica = r)
             => LET before == BranchRead(repos[r], call'.branch_id).revision
                    after == repos[r]'
                IN \A id \in DOMAIN after.operations \ DOMAIN repos[r].operations :
                      \A i \in DOMAIN after.operations[id].edits :
                         LET range == after.operations[id].edits[i].range
                             found == VisibleFragmentsForRange(before, range)
                         IN /\ found.ok
                            /\ found.fragments # <<>>
                            /\ HoldsAnchor(found.fragments[1], range.start_insertion_id,
                                           range.start_offset_in_insertion)]_vars

\* the insertions of a revision
InsertionIds(revision) ==
    {revision.insertion_fragments[i].insertion_id : i \in DOMAIN revision.insertion_fragments}

\* the locations of the fragments of the insertion whose subrange meets [a, b)
IntersectingLocations(revision, insertion_id, a, b) ==
    {revision.document_fragments[i].location :
        i \in {j \in DOMAIN revision.document_fragments :
                  /\ revision.document_fragments[j].insertion_id = insertion_id
                  /\ revision.document_fragments[j].insertion_subrange.start < b
                  /\ revision.document_fragments[j].insertion_subrange.end > a}}

\* the ends of the subranges given to fragment_locations
SubrangeEnds == 0..4

\* C39: fragment_locations(insertion_id, a..b) returns the location of every
\* fragment of the insertion whose subrange meets [a, b), the fragment that
\* holds a included, and no location of a fragment of another insertion
FragmentLocationsComplete ==
    \A r \in Clients :
       \A revision_id \in DOMAIN repos[r].revisions :
          LET revision == repos[r].revisions[revision_id]
          IN \A insertion_id \in InsertionIds(revision) :
                \A a \in SubrangeEnds, b \in SubrangeEnds :
                   a < b =>
                      LET locations == FragmentLocations(revision, insertion_id,
                                                         [start |-> a, end |-> b])
                          returned == {locations[i] : i \in DOMAIN locations}
                      IN /\ IntersectingLocations(revision, insertion_id, a, b)
                              \subseteq returned
                         /\ returned \subseteq
                               {revision.insertion_fragments[j].fragment_location :
                                  j \in {k \in DOMAIN revision.insertion_fragments :
                                            revision.insertion_fragments[k].insertion_id
                                               = insertion_id}}

\* the text of an insertion: the texts of the edits of its Edit operation
InsertionText(repo, insertion_id) ==
    LET edits == IF insertion_id \in DOMAIN repo.operations
                 THEN repo.operations[insertion_id].edits ELSE <<>>
        RECURSIVE Go(_)
        Go(i) == IF i > Len(edits) THEN <<>> ELSE edits[i].text \o Go(i + 1)
    IN Go(1)

\* the characters of the visible fragments of a document, read from the
\* insertions they belong to
OwnText(repo, revision, document_id) ==
    LET fragments == revision.document_fragments
        RECURSIVE Go(_)
        Go(i) ==
            IF i > Len(fragments) THEN <<>>
            ELSE (IF fragments[i].document_id = document_id /\ Visible(fragments[i])
                  THEN SubSeq(InsertionText(repo, fragments[i].insertion_id),
                              fragments[i].insertion_subrange.start + 1,
                              fragments[i].insertion_subrange.end)
                  ELSE <<>>) \o Go(i + 1)
    IN Go(1)

\* C40: after any call, text() of every document of a branch is made of the
\* characters of its own visible fragments, and Document::edit on a document
\* leaves text() of every other document of the branch as it was
DocumentsIsolated ==
    [][\A r \in Clients :
          \A branch_id \in DOMAIN repos[r]'.branches :
             LET after == BranchRead(repos[r]', branch_id)
             IN after.ok =>
                  \A d \in after.revision.document_metadata :
                     /\ DocumentText(after.revision, d) = OwnText(repos[r]', after.revision, d)
                     /\ ( /\ call'.kind = "edit"
                          /\ call'.replica = r
                          /\ call'.branch_id = branch_id
                          /\ d # call'.document_id )
                           => TextOf(repos[r], branch_id, d) = DocumentText(after.revision, d)]_vars

\* the document with the lower id was edited to "abc" while the document with
\* the higher id read "ghi", and each reads its own text
DocumentsIsolatedWitness ==
    /\ call.kind = "edit"
    /\ \E r \in Clients :
          /\ call.replica = r
          /\ call.branch_id \in DOMAIN repos[r].branches
          /\ \E d \in Documents(repos[r], call.branch_id) :
                /\ OpIdLess(call.document_id, d)
                /\ TextOf(repos[r], call.branch_id, call.document_id) = <<"a", "b", "c">>
                /\ TextOf(repos[r], call.branch_id, d) = <<"g", "h", "i">>

====
